---- MODULE Spec2Model ----
(***************************************************************************)
(* devboard-backend: the streak calculation of the Streak model and the    *)
(* time-bucketed response caches of the GitHub and StackOverflow services. *)
(*                                                                         *)
(* Times are JavaScript time values: milliseconds since the epoch, UTC.    *)
(* A DATEONLY column value is a calendar day, written here as the number   *)
(* of days since the epoch (the string 'YYYY-MM-DD' of the store).         *)
(***************************************************************************)
EXTENDS Integers, Sequences, FiniteSets, TLC

VARIABLES
  streaks,   \* the Streaks table: a set of rows
  tz,        \* the server process's offset from UTC, in milliseconds
  now,       \* the wall clock: what new Date() / Date.now() reads
  calc,      \* the last Streak.calculateCurrentStreak call and what it returned
  cache,     \* the module-level cache objects of the two services
  tasks,     \* the service calls made so far (async functions), in call order
  provider,  \* the HTTP requests sent to the providers so far, in order
  composites, \* the getComprehensiveProfile calls made so far, in call order
  handlers,  \* the streak controller's requests so far, in arrival order
  res        \* the last response the streak controller has sent

streakVars == <<streaks, tz, calc, handlers, res>>
cacheVars == <<cache, tasks, provider, composites>>
vars ==
  <<streaks, tz, now, calc, cache, tasks, provider, composites, handlers,
    res>>

(***************************************************************************)
(* Bounds of the model.                                                    *)
(***************************************************************************)
MaxDay == 5
\* service calls (direct or composite) made in one run
MaxCalls == 2
\* seconds the clock may advance in one run
MaxClock == 3
\* requests the streak controller serves in one run
MaxRequests == 2
\* the latest day a request body or a contribution calendar names
MaxBodyDay == 2
MaxLaterCalls == 1

Days == 0..MaxDay
Users == {"u1", "u2"}

\* streak.model.js:105  (1000 * 60 * 60 * 24), the milliseconds of a day
MS_PER_DAY == 1000 * 60 * 60 * 24
MS_PER_HOUR == 1000 * 60 * 60

\* Offsets from UTC the server process may run under (fixed-offset zones).
TZOffsets == {(0 - 3) * MS_PER_HOUR, 0, 3 * MS_PER_HOUR}

\* Wall-clock hours of the day at which a request may arrive.
HoursOfDay == {2, 12, 22}

NULL == <<>>

(***************************************************************************)
(* JavaScript Date, as the code uses it.                                   *)
(***************************************************************************)
\* new Date('YYYY-MM-DD').getTime(): a date-only string is parsed as UTC
\* midnight of that day.
ParseDateOnly(d) == d * MS_PER_DAY

\* new Date(x) kept as an object in the result: a Date holding a time value.
DateObj(t) == <<t>>

\* A rounding to the nearest local midnight in place of the day's own.
SetHoursZero_NearestMidnight(t, off) ==
  ((t + off + 12 * MS_PER_HOUR) \div MS_PER_DAY) * MS_PER_DAY - off

\* today.setHours(0, 0, 0, 0): midnight of the current day in the server's
\* LOCAL time zone, as a time value.
SetHoursZero(t, off) == ((t + off) \div MS_PER_DAY) * MS_PER_DAY - off

\* yesterday.setDate(yesterday.getDate() - 1) on a local-midnight Date.
SetDateMinusOne(t) == t - MS_PER_DAY

\* Math.ceil(a / b) for b > 0
MathCeilDiv(a, b) == 0 - ((0 - a) \div b)

(***************************************************************************)
(* The store, as calculateCurrentStreak reads it.                          *)
(***************************************************************************)
RECURSIVE SortDesc(_)
SortDesc(S) ==
  IF S = {} THEN <<>>
  ELSE LET m == CHOOSE x \in S : \A y \in S : y <= x
       IN <<m>> \o SortDesc(S \ {m})

\* findAll without its where clause: every user's dates.
FindAllDatesDesc_NoUserFilter(rows, userId) == SortDesc({r.date : r \in rows})

\* Streak.findAll({ where: { userId }, order: [['date', 'DESC']] }):
\* the dates of the user's rows, most recent first.  (userId, date) is
\* unique, so a user's rows and their dates correspond one to one.
FindAllDatesDesc(rows, userId) ==
  SortDesc({r.date : r \in {s \in rows : s.userId = userId}})

(***************************************************************************)
(* Streak.calculateCurrentStreak (streak.model.js:67-129).                 *)
(***************************************************************************)
\* isActive that also accepts the day before yesterday.
IsActive_TwoDaysBack(mostRecentTime, today, yesterday) ==
  \/ mostRecentTime = today
  \/ mostRecentTime = yesterday
  \/ mostRecentTime = yesterday - MS_PER_DAY

\* streak.model.js:91-93  isActive: the most recent entry's time value
\* equals today's or yesterday's local midnight.
IsActive(mostRecentTime, today, yesterday) ==
  mostRecentTime = today \/ mostRecentTime = yesterday

\* streak.model.js:104-105  diffDays between the previous and this entry
DiffDays(prevTime, entryTime) == MathCeilDiv(prevTime - entryTime, MS_PER_DAY)

\* streak.model.js:98-118  one iteration of the loop over streakEntries.
\* acc = [prev, temp, longest]; prev is NULL before the first entry.
LoopBody(acc, entryTime) ==
  IF acc.prev = NULL
  THEN [prev |-> DateObj(entryTime), temp |-> 1, longest |-> acc.longest]
  ELSE IF DiffDays(acc.prev[1], entryTime) = 1
       THEN [prev |-> DateObj(entryTime), temp |-> acc.temp + 1,
             longest |-> acc.longest]
       ELSE [prev |-> DateObj(entryTime), temp |-> 1,
             longest |-> IF acc.temp > acc.longest THEN acc.temp
                         ELSE acc.longest]

RECURSIVE Loop(_, _, _)
Loop(entries, i, acc) ==
  IF i > Len(entries) THEN acc
  ELSE Loop(entries, i + 1, LoopBody(acc, ParseDateOnly(entries[i])))

\* The loop's result without the update after the loop.
FinalLongest_NoUpdate(acc) == acc.longest

\* streak.model.js:120-123  "Update longest streak if needed"
FinalLongest(acc) == IF acc.temp > acc.longest THEN acc.temp ELSE acc.longest

\* streak.model.js:125-126  "Set current streak"
CurrentStreakOf(isActive, acc) == IF isActive THEN acc.temp ELSE 0

\* The date of the oldest entry in place of the most recent one.
LastActiveDate_Oldest(entries) == DateObj(ParseDateOnly(entries[Len(entries)]))

\* streak.model.js:84  let lastActiveDate = new Date(streakEntries[0].date)
LastActiveDate(entries) == DateObj(ParseDateOnly(entries[1]))

\* streak.model.js:77-79  the result for a user without entries
EmptyResult ==
  [currentStreak |-> 0, longestStreak |-> 0, lastActiveDate |-> NULL]

\* streak.model.js:67-129  entries: the user's dates, most recent first;
\* t: the clock reading; off: the server's offset from UTC.
CalculateCurrentStreak(entries, t, off) ==
  LET today == SetHoursZero(t, off)
      yesterday == SetDateMinusOne(today)
  IN IF Len(entries) = 0 THEN EmptyResult
     ELSE LET mostRecentTime == ParseDateOnly(entries[1])
              isActive == IsActive(mostRecentTime, today, yesterday)
              acc == Loop(entries, 1, [prev |-> NULL, temp |-> 0, longest |-> 0])
          IN [currentStreak |-> CurrentStreakOf(isActive, acc),
              longestStreak |-> FinalLongest(acc),
              lastActiveDate |-> LastActiveDate(entries)]


(***************************************************************************)
(* The response caches (github.service.js:4-11, 52-91 and the              *)
(* StackOverflow service, part_006:4-11, 27-68).                           *)
(***************************************************************************)
\* github.service.js:11 / part_006:11  CACHE_DURATION, in seconds
\* (parseInt(process.env.CACHE_DURATION, 10) || 3600); here the server is
\* configured with CACHE_DURATION=2.
CACHE_DURATION == 2

\* github.service.js:59  the factor of CACHE_DURATION * 1000
MS_PER_SEC == 1000

Services == {"github", "stackoverflow"}

\* github.service.js:5-8, part_006:5-8  const cache = { data: {}, timestamps: {} }
EmptyCache == [data |-> <<>>, timestamps |-> <<>>]
EmptyCaches == [svc \in Services |-> EmptyCache]

\* A token is a string; "" stands for every falsy token (null, undefined, '').
Truthy(str) == str # ""

\* Tokens a caller can present: none, two personal access tokens, and the
\* string 'anonymous' (linkGitHubAccount stores any string from the body).
Tokens == {"", "t1", "t2", "anonymous"}

GitHubUsernames == {"octo"}
StackOverflowUserIds == {"7"}

\* github.service.js:100  `/users/${username}`
UserEndpoint(username) == "/users/" \o username

\* github.service.js:112  `/users/${username}/repos?sort=updated&per_page=${limit}`
ReposEndpoint(username, limit) ==
  "/users/" \o username \o "/repos?sort=updated&per_page=" \o ToString(limit)

\* part_006:76-78  getUserProfile: endpoint and params
SOProfileEndpoint(userId) == "/users/" \o userId
SOProfileParams == <<<<"filter", "\"withbadges\"">>>>

\* part_006:91-97  getUserQuestions: endpoint and params
SOQuestionsEndpoint(userId) == "/users/" \o userId \o "/questions"
SOQuestionsParams(page, pageSize) ==
  << <<"page", ToString(page)>>, <<"pagesize", ToString(pageSize)>>,
     <<"order", "\"desc\"">>, <<"sort", "\"activity\"">>,
     <<"filter", "\"!-*f(6s6U8Q9b\"">> >>

\* part_006:108-114  getUserAnswers
SOAnswersEndpoint(userId) == "/users/" \o userId \o "/answers"
SOAnswersParams(page, pageSize) ==
  << <<"page", ToString(page)>>, <<"pagesize", ToString(pageSize)>>,
     <<"order", "\"desc\"">>, <<"sort", "\"activity\"">>,
     <<"filter", "\"!-*f(6sFKmVSCD\"">> >>

\* part_006:123-125  getUserTopTags
SOTopTagsEndpoint(userId) == "/users/" \o userId \o "/top-tags"
\* part_006:134-136  getUserReputationHistory
SOReputationEndpoint(userId) == "/users/" \o userId \o "/reputation-history"
SOTagFilterParams == <<<<"filter", "\"!-.7zntT7S7\"">>>>

\* JSON.stringify of a flat object: its members in insertion order.
RECURSIVE JSONMembers(_, _)
JSONMembers(params, i) ==
  IF i > Len(params) THEN ""
  ELSE (IF i > 1 THEN "," ELSE "")
       \o "\"" \o params[i][1] \o "\":" \o params[i][2]
       \o JSONMembers(params, i + 1)

JSONStringify(params) == "{" \o JSONMembers(params, 1) \o "}"

\* github.service.js:53  `${endpoint}_${token || 'anonymous'}`
GitHubCacheKey(endpoint, token) ==
  endpoint \o "_" \o (IF Truthy(token) THEN token ELSE "anonymous")

\* part_006:29  `${endpoint}_${JSON.stringify(params)}`; cred is the
\* stringified params of the call.
StackOverflowCacheKey(endpoint, cred) == endpoint \o "_" \o cred

CacheKey(svc, endpoint, cred) ==
  IF svc = "github" THEN GitHubCacheKey(endpoint, cred)
  ELSE StackOverflowCacheKey(endpoint, cred)

\* github.service.js:28-44  getHeaders: what the request carries as
\* Authorization.  Without a token it is the application's Basic
\* credentials or nothing, the same for every caller.
GetHeaders(token) == IF Truthy(token) THEN "token " \o token ELSE "no token"

\* What the provider is asked with: GitHub gets the headers of the token,
\* StackOverflow the merged params (part_006:41-53).
RequestAuth(svc, cred) == IF svc = "github" THEN GetHeaders(cred) ELSE cred

\* The freshness check without the factor 1000: the age in milliseconds
\* compared with the duration in seconds.
IsHit_NoMsFactor(c, key, t) ==
  /\ key \in DOMAIN c.data
  /\ t - c.timestamps[key] < CACHE_DURATION

\* A freshness check that never finds a fresh entry: every call fetches.
IsHit_Never(c, key, t) == FALSE

\* The freshness check with <= in place of <: an entry whose age is
\* exactly the duration is still served.
IsHit_Inclusive(c, key, t) ==
  /\ key \in DOMAIN c.data
  /\ t - c.timestamps[key] <= CACHE_DURATION * MS_PER_SEC

\* github.service.js:57-60, part_006:33-36  the entry exists and is fresh.
\* (Every payload of these endpoints is a JSON object or array, so
\* cache.data[cacheKey] is truthy exactly when the entry exists.)
IsHit(c, key, t) ==
  /\ key \in DOMAIN c.data
  /\ t - c.timestamps[key] < CACHE_DURATION * MS_PER_SEC

\* A write that replaces the whole cache object by the one entry.
CacheWrite_DropOthers(c, key, payload, t) ==
  [data |-> (key :> payload), timestamps |-> (key :> t)]

\* A write that keeps the entry it finds when that entry's timestamp is
\* later than the writer's.
CacheWrite_KeepNewer(c, key, payload, t) ==
  IF key \in DOMAIN c.data /\ c.timestamps[key] > t THEN c
  ELSE [data |-> (key :> payload) @@ c.data,
        timestamps |-> (key :> t) @@ c.timestamps]

\* github.service.js:71-72, part_006:56-57
CacheWrite(c, key, payload, t) ==
  [data |-> (key :> payload) @@ c.data,
   timestamps |-> (key :> t) @@ c.timestamps]

(***************************************************************************)
(* Provider responses and failures.                                        *)
(***************************************************************************)
None == [kind |-> "none"]

\* response.data of the k-th request sent: it is the provider's answer to
\* that request (its URL and its credentials).
PayloadOfRequest(request, k) ==
  [kind |-> "payload", svc |-> request.svc, url |-> request.url,
   auth |-> request.auth, ver |-> k]

Payload(k) == PayloadOfRequest(provider[k], k)

\* axios rejections: a 403 with x-ratelimit-remaining '0', another HTTP
\* status, a StackOverflow error_id 502.
RateLimited ==
  [kind |-> "error", message |-> "Request failed with status code 403",
   status |-> 403, remaining |-> "0", errorId |-> 0]
ServerError ==
  [kind |-> "error", message |-> "Request failed with status code 500",
   status |-> 500, remaining |-> "", errorId |-> 0]
QuotaExceeded ==
  [kind |-> "error", message |-> "Request failed with status code 400",
   status |-> 400, remaining |-> "", errorId |-> 502]

ProviderErrors(svc) ==
  IF svc = "github" THEN {RateLimited, ServerError}
  ELSE {QuotaExceeded, ServerError}

\* new Error(message)
NewError(message) ==
  [kind |-> "error", message |-> message, status |-> 0, remaining |-> "",
   errorId |-> 0]

\* github.service.js:75-90  the catch block of cachedRequest
GitHubCatch(error) ==
  IF error.status = 403 /\ error.remaining = "0"
  THEN NewError("GitHub API rate limit exceeded. Resets at <reset time>")
  ELSE error

\* part_006:60-67  the catch block of cachedRequest
StackOverflowCatch(error) ==
  IF error.errorId = 502
  THEN NewError("StackOverflow API quota exceeded")
  ELSE error

CachedRequestCatch(svc, error) ==
  IF svc = "github" THEN GitHubCatch(error) ELSE StackOverflowCatch(error)

(***************************************************************************)
(* Service calls as tasks.  A task is one call of an async function:       *)
(*   op       "cachedRequest" or "graphql" (the POSTs of                   *)
(*            getPinnedRepositories and getContributionData)               *)
(*   now      the Date.now() the call read on entry                        *)
(*   seen     the cache.timestamps[cacheKey] the call read on entry,       *)
(*            Undefined when the key had no entry                          *)
(*   st       "awaiting" (at its await of axios), "returned" or "threw"    *)
(*   value    what it returned or threw                                    *)
(*   owner    the composite call it is a facet of, 0 for a direct call     *)
(*   user     the username argument of a graphql task                      *)
(***************************************************************************)
Settled(t) == t.st # "awaiting"

\* cache.timestamps[key] of a key without an entry, as a number no clock
\* reading equals.
Undefined == 0 - 1

\* github.service.js:59  cache.timestamps[cacheKey] as the call reads it
TimestampOf(c, key) ==
  IF key \in DOMAIN c.timestamps THEN c.timestamps[key] ELSE Undefined

MaxOf(S) == CHOOSE x \in S : \A y \in S : y <= x

\* github.service.js:52-68, part_006:27-53  cachedRequest from its entry
\* to its first await: the key, the clock, the freshness check and, on a
\* miss, the request sent.  s = [tasks, provider]; the result is s after
\* the call.
CachedRequestStart(s, svc, endpoint, cred, owner, facet) ==
  LET cacheKey == CacheKey(svc, endpoint, cred)
      id == Len(s.tasks) + 1
      task == [op |-> "cachedRequest", svc |-> svc, endpoint |-> endpoint,
               cred |-> cred, key |-> cacheKey, now |-> now,
               seen |-> TimestampOf(cache[svc], cacheKey), user |-> "",
               owner |-> owner, facet |-> facet]
  IN IF IsHit(cache[svc], cacheKey, now)
     THEN [tasks |-> Append(s.tasks,
                       task @@ [st |-> "returned",
                                value |-> cache[svc].data[cacheKey]]),
           provider |-> s.provider]
     ELSE [tasks |-> Append(s.tasks,
                       task @@ [st |-> "awaiting", value |-> None]),
           provider |-> Append(s.provider,
                          [svc |-> svc, url |-> endpoint,
                           auth |-> RequestAuth(svc, cred), by |-> id,
                           outcome |-> "pending", error |-> None])]

\* The request a task is waiting for.
RequestOf(i) == CHOOSE k \in DOMAIN provider : provider[k].by = i

\* The provider's log once request k has been answered or has failed.
Answered(log, k, outcome) == [log EXCEPT ![k].outcome = outcome]

\* The provider's log once request k has failed with the error.
Failed(log, k, error) ==
  [log EXCEPT ![k].outcome = "failed", ![k].error = error]

\* github.service.js:70-74, part_006:55-59  the request resolved: the
\* response is cached under the key and the clock reading of the call's
\* entry, and returned.
CachedRequestResolved(t, payload) ==
  [t EXCEPT !.st = "returned", !.value = payload]

\* A catch block that serves the entry it has, stale or not, instead of
\* throwing.
CachedRequestRejected_ServeStale(t, error) ==
  IF t.key \in DOMAIN cache[t.svc].data
  THEN [t EXCEPT !.st = "returned", !.value = cache[t.svc].data[t.key]]
  ELSE [t EXCEPT !.st = "threw", !.value = CachedRequestCatch(t.svc, error)]

\* github.service.js:75-90, part_006:60-67  the request rejected.
CachedRequestRejected(t, error) ==
  [t EXCEPT !.st = "threw", !.value = CachedRequestCatch(t.svc, error)]

(***************************************************************************)
(* The GraphQL retrievals of the GitHub service: not cached.               *)
(***************************************************************************)
\* A GraphQL retrieval that goes through the cache, keyed by its facet:
\* while the user's profile entry is fresh the retrieval is answered from
\* it and no request is sent.
GraphQLStart_Cached(s, username, token, owner, facet) ==
  LET id == Len(s.tasks) + 1
      key == GitHubCacheKey(UserEndpoint(username), token)
      hit == IsHit(cache["github"], key, now)
  IN [tasks |-> Append(s.tasks,
                  [op |-> "graphql", svc |-> "github",
                   endpoint |-> "https://api.github.com/graphql",
                   cred |-> token, key |-> "", now |-> now, seen |-> Undefined,
                   user |-> username, owner |-> owner, facet |-> facet,
                   st |-> IF hit THEN "returned" ELSE "awaiting",
                   value |-> IF hit
                             THEN [kind |-> IF facet = "pinnedRepositories"
                                            THEN "pinnedItems.nodes"
                                            ELSE "contributionCalendar",
                                   of |-> cache["github"].data[key]]
                             ELSE None]),
      provider |-> IF hit THEN s.provider
                   ELSE Append(s.provider,
                          [svc |-> "github",
                           url |-> "https://api.github.com/graphql " \o facet
                                   \o " " \o username,
                           auth |-> GetHeaders(token), by |-> id,
                           outcome |-> "pending", error |-> None])]

\* github.service.js:129-160 and 184-212  axios.post to the GraphQL API
GraphQLStart(s, username, token, owner, facet) ==
  LET id == Len(s.tasks) + 1
  IN [tasks |-> Append(s.tasks,
                  [op |-> "graphql", svc |-> "github",
                   endpoint |-> "https://api.github.com/graphql",
                   cred |-> token, key |-> "", now |-> now, seen |-> Undefined,
                   user |-> username, owner |-> owner, facet |-> facet,
                   st |-> "awaiting", value |-> None]),
      provider |-> Append(s.provider,
                     [svc |-> "github",
                      url |-> "https://api.github.com/graphql " \o facet
                              \o " " \o username,
                      auth |-> GetHeaders(token), by |-> id,
                      outcome |-> "pending", error |-> None])]

\* github.service.js:166 and 218  the part of the response a retrieval returns
GraphQLData(facet, payload) ==
  IF facet = "pinnedRepositories"
  THEN [kind |-> "pinnedItems.nodes", of |-> payload]
  ELSE [kind |-> "contributionCalendar", of |-> payload]

\* Ways a GraphQL retrieval fails: the POST rejects, or the response
\* carries errors (github.service.js:162-164, 214-216).
GraphQLFailures ==
  {ServerError, NewError("Could not resolve to a User with the login")}

\* github.service.js:219-221  the catch block of getContributionData
ContributionCatch(error) ==
  NewError("Failed to fetch contribution data: " \o error.message)

\* The fallback asking for the default number of repositories.
PinnedFallback_DefaultLimit(s, i, error) ==
  LET t == s.tasks[i]
      caught == [s EXCEPT !.tasks[i].st = "caught", !.tasks[i].value = error]
  IN CachedRequestStart(caught, "github", ReposEndpoint(t.user, 10), t.cred,
                        t.owner, t.facet)

\* github.service.js:167-171  the catch block of getPinnedRepositories:
\* the failure is caught and getUserRepositories(username, token, 6) is
\* called in its place.  s.tasks[i] is the failed primary retrieval.
PinnedFallback(s, i, error) ==
  LET t == s.tasks[i]
      caught == [s EXCEPT !.tasks[i].st = "caught", !.tasks[i].value = error]
  IN CachedRequestStart(caught, "github", ReposEndpoint(t.user, 6), t.cred,
                        t.owner, t.facet)

(***************************************************************************)
(* getComprehensiveProfile (github.service.js:230-249, part_006:144-165).  *)
(***************************************************************************)
GitHubFacets == {"profile", "repositories", "pinnedRepositories", "contributions"}
StackOverflowFacets ==
  {"profile", "questions", "answers", "topTags", "reputationHistory"}

FacetsOf(svc) == IF svc = "github" THEN GitHubFacets ELSE StackOverflowFacets

\* The call whose promise the facet's slot of Promise.all holds: the
\* facet's last call (the fallback, once the pinned primary has failed).
FacetTask(ts, cid, facet) ==
  ts[MaxOf({i \in DOMAIN ts : ts[i].owner = cid /\ ts[i].facet = facet})]

\* part_006:80  response.items[0] || null
FirstItemOrNull(response) == [kind |-> "items[0]", of |-> response]
\* part_006:157-160  questions.items, answers.items, ...
Items(response) == [kind |-> "items", of |-> response]

\* github.service.js:240-245, part_006:155-161  the object returned
Assemble(svc, v) ==
  IF svc = "github"
  THEN [kind |-> "profile", profile |-> v["profile"],
        repositories |-> v["repositories"],
        pinnedRepositories |-> v["pinnedRepositories"],
        contributions |-> v["contributions"]]
  ELSE [kind |-> "profile", profile |-> FirstItemOrNull(v["profile"]),
        questions |-> Items(v["questions"]),
        answers |-> Items(v["answers"]),
        topTags |-> Items(v["topTags"]),
        reputationHistory |-> Items(v["reputationHistory"])]

\* github.service.js:247, part_006:163
CompositeCatch(svc, error) ==
  NewError((IF svc = "github" THEN "Failed to fetch GitHub profile: "
            ELSE "Failed to fetch StackOverflow profile: ") \o error.message)

\* Promise.allSettled in place of Promise.all: the call waits for every
\* facet and returns what it has, a rejected facet's slot holding no data.
CompositeOutcome_AllSettled(ts, cid, c) ==
  LET ft(f) == FacetTask(ts, cid, f)
  IN IF \A f \in FacetsOf(c.svc) : ft(f).st \in {"returned", "threw"}
     THEN [c EXCEPT !.st = "returned",
                    !.value = Assemble(c.svc,
                                [f \in FacetsOf(c.svc) |->
                                   IF ft(f).st = "returned" THEN ft(f).value
                                   ELSE None])]
     ELSE c

\* A combinator that waits for every facet to be fulfilled and has no
\* rejection path: one rejected facet leaves the call waiting for ever.
CompositeOutcome_NoRejection(ts, cid, c) ==
  LET ft(f) == FacetTask(ts, cid, f)
  IN IF \A f \in FacetsOf(c.svc) : ft(f).st = "returned"
     THEN [c EXCEPT !.st = "returned",
                    !.value = Assemble(c.svc,
                                [f \in FacetsOf(c.svc) |-> ft(f).value])]
     ELSE c

\* await Promise.all([...]) inside try/catch: the call throws as soon as
\* one facet's promise rejects, returns the assembled object once every
\* facet's promise is fulfilled, and waits otherwise.  It is evaluated after
\* every step of a facet, and a step rejects at most one facet, so a
\* waiting call sees at most one rejected facet: the first rejection.
CompositeOutcome(ts, cid, c) ==
  LET ft(f) == FacetTask(ts, cid, f)
      rejected == {f \in FacetsOf(c.svc) : ft(f).st = "threw"}
  IN IF rejected # {}
     THEN LET first == CHOOSE f \in rejected : TRUE
          IN [c EXCEPT !.st = "threw",
                       !.value = CompositeCatch(c.svc, ft(first).value)]
     ELSE IF \A f \in FacetsOf(c.svc) : ft(f).st = "returned"
          THEN [c EXCEPT !.st = "returned",
                         !.value = Assemble(c.svc,
                                     [f \in FacetsOf(c.svc) |-> ft(f).value])]
          ELSE c

\* The promise reactions that run when a facet settles: every composite
\* call still waiting is resumed if its Promise.all has settled.
SettleAll(cs, ts) ==
  [cid \in DOMAIN cs |->
     IF cs[cid].st = "awaiting" THEN CompositeOutcome(ts, cid, cs[cid])
     ELSE cs[cid]]

(***************************************************************************)
(* Actions of the services.                                                *)
(***************************************************************************)
NumCalls == Cardinality({i \in DOMAIN tasks : tasks[i].owner = 0})

\* A direct call of cachedRequest through a service method
\* (getUserProfile, getUserRepositories, getUserQuestions, ...).
CachedRequestCall(svc, endpoint, cred) ==
  /\ NumCalls < MaxCalls
  /\ LET s == CachedRequestStart([tasks |-> tasks, provider |-> provider],
                                 svc, endpoint, cred, 0, "direct")
     IN /\ tasks' = s.tasks
        /\ provider' = s.provider
  /\ UNCHANGED <<cache, composites, now>>
  /\ UNCHANGED streakVars

\* A composite call that aborts its other facets when it throws: the
\* response of a facet still in flight is dropped and nothing is written.
ProviderResolve_AbortedByComposite(i) ==
  /\ tasks[i].op = "cachedRequest"
  /\ tasks[i].st = "awaiting"
  /\ LET t == tasks[i]
         payload == Payload(RequestOf(i))
         aborted == /\ t.owner \in DOMAIN composites
                    /\ composites[t.owner].st = "threw"
     IN /\ cache' = IF aborted THEN cache
                    ELSE [cache EXCEPT ![t.svc] = CacheWrite(@, t.key, payload, t.now)]
        /\ tasks' = [tasks EXCEPT ![i] = CachedRequestResolved(t, payload)]
  /\ provider' = Answered(provider, RequestOf(i), "ok")
  /\ composites' = SettleAll(composites, tasks')
  /\ UNCHANGED now
  /\ UNCHANGED streakVars

\* The provider answers the request of cachedRequest call i.
ProviderResolve(i) ==
  /\ tasks[i].op = "cachedRequest"
  /\ tasks[i].st = "awaiting"
  /\ LET t == tasks[i]
         payload == Payload(RequestOf(i))
     IN /\ cache' = [cache EXCEPT ![t.svc] = CacheWrite(@, t.key, payload, t.now)]
        /\ tasks' = [tasks EXCEPT ![i] = CachedRequestResolved(t, payload)]
  /\ provider' = Answered(provider, RequestOf(i), "ok")
  /\ composites' = SettleAll(composites, tasks')
  /\ UNCHANGED now
  /\ UNCHANGED streakVars

\* The request of cachedRequest call i fails.
ProviderReject(i, error) ==
  /\ tasks[i].op = "cachedRequest"
  /\ tasks[i].st = "awaiting"
  /\ tasks' = [tasks EXCEPT
                 ![i] = CachedRequestRejected(tasks[i], error)]
  /\ provider' = Failed(provider, RequestOf(i), error)
  /\ composites' = SettleAll(composites, tasks')
  /\ UNCHANGED <<cache, now>>
  /\ UNCHANGED streakVars

\* The GraphQL API answers retrieval i without errors.
GraphQLResolve(i) ==
  /\ tasks[i].op = "graphql"
  /\ tasks[i].st = "awaiting"
  /\ tasks' = [tasks EXCEPT
                 ![i].st = "returned",
                 ![i].value = GraphQLData(tasks[i].facet, Payload(RequestOf(i)))]
  /\ provider' = Answered(provider, RequestOf(i), "ok")
  /\ composites' = SettleAll(composites, tasks')
  /\ UNCHANGED <<cache, now>>
  /\ UNCHANGED streakVars

\* GraphQL retrieval i fails.
GraphQLFail(i, error) ==
  /\ tasks[i].op = "graphql"
  /\ tasks[i].st = "awaiting"
  /\ IF tasks[i].facet = "pinnedRepositories"
     THEN LET s == PinnedFallback(
                     [tasks |-> tasks,
                      provider |-> Failed(provider, RequestOf(i), error)],
                     i, error)
          IN /\ tasks' = s.tasks
             /\ provider' = s.provider
     ELSE /\ tasks' = [tasks EXCEPT
                         ![i].st = "threw",
                         ![i].value = ContributionCatch(error)]
          /\ provider' = Failed(provider, RequestOf(i), error)
  /\ composites' = SettleAll(composites, tasks')
  /\ UNCHANGED <<cache, now>>
  /\ UNCHANGED streakVars

\* github.service.js:230-238  GitHub getComprehensiveProfile: the four
\* facet calls are made one after the other, each running to its first
\* await, before Promise.all is awaited.
GitHubComprehensiveProfile(username, token) ==
  /\ composites = <<>>
  /\ LET cid == Len(composites) + 1
         s0 == [tasks |-> tasks, provider |-> provider]
         s1 == CachedRequestStart(s0, "github", UserEndpoint(username), token,
                                  cid, "profile")
         s2 == CachedRequestStart(s1, "github", ReposEndpoint(username, 10),
                                  token, cid, "repositories")
         s3 == GraphQLStart(s2, username, token, cid, "pinnedRepositories")
         s4 == GraphQLStart(s3, username, token, cid, "contributions")
     IN /\ tasks' = s4.tasks
        /\ provider' = s4.provider
        /\ composites' =
             SettleAll(Append(composites,
                         [svc |-> "github", user |-> username, token |-> token,
                          st |-> "awaiting", value |-> None]),
                       s4.tasks)
  /\ UNCHANGED <<cache, now>>
  /\ UNCHANGED streakVars

\* part_006:144-153  StackOverflow getComprehensiveProfile
StackOverflowComprehensiveProfile(userId) ==
  /\ composites = <<>>
  /\ LET cid == Len(composites) + 1
         s0 == [tasks |-> tasks, provider |-> provider]
         s1 == CachedRequestStart(s0, "stackoverflow", SOProfileEndpoint(userId),
                 JSONStringify(SOProfileParams), cid, "profile")
         s2 == CachedRequestStart(s1, "stackoverflow", SOQuestionsEndpoint(userId),
                 JSONStringify(SOQuestionsParams(1, 10)), cid, "questions")
         s3 == CachedRequestStart(s2, "stackoverflow", SOAnswersEndpoint(userId),
                 JSONStringify(SOAnswersParams(1, 10)), cid, "answers")
         s4 == CachedRequestStart(s3, "stackoverflow", SOTopTagsEndpoint(userId),
                 JSONStringify(SOTagFilterParams), cid, "topTags")
         s5 == CachedRequestStart(s4, "stackoverflow", SOReputationEndpoint(userId),
                 JSONStringify(SOTagFilterParams), cid, "reputationHistory")
     IN /\ tasks' = s5.tasks
        /\ provider' = s5.provider
        /\ composites' =
             SettleAll(Append(composites,
                         [svc |-> "stackoverflow", user |-> userId, token |-> "",
                          st |-> "awaiting", value |-> None]),
                       s5.tasks)
  /\ UNCHANGED <<cache, now>>
  /\ UNCHANGED streakVars

\* A second passes.
Tick ==
  /\ now < MaxClock * MS_PER_SEC
  /\ now' = now + MS_PER_SEC
  /\ UNCHANGED cacheVars
  /\ UNCHANGED streakVars

(***************************************************************************)
(* The Streaks table (streak.model.js:9-56) as the streak controller       *)
(* reads and writes it.                                                    *)
(***************************************************************************)
\* A text field the request body does not carry, and a NULL text column.
UndefinedText == "undefined"
NullText == "null"

\* A DATEONLY column given a Date: Sequelize writes the calendar day the
\* Date falls on in the server's local time zone (moment(value).format).
DateOnly(t, off) == (t + off) \div MS_PER_DAY

\* streak.controller.js:111, 123, 171, 324, 338  date: new Date(date), for
\* the day d the body or the contribution calendar names.
ColumnDate(d, off) == DateOnly(ParseDateOnly(d), off)

\* streak.model.js:11-45  the columns of a row
StreakRow(id, userId, date, description, language, source, commitCount) ==
  [id |-> id, userId |-> userId, date |-> date, description |-> description,
   language |-> language, source |-> source, commitCount |-> commitCount]

\* streak.model.js:12-16  id: UUIDV4, a fresh value for every row created.
\* A row's id names the request that created it (0: before the run), its
\* user and its date.
NewId(h, userId, date) == <<h, userId, date>>

\* An id no row has.
MissingId == <<0, "", 0>>

\* JavaScript truthiness of a number field of the body.
TruthyNumber(n) == n # Undefined /\ n # 0

\* Streak.findOne({ where: { userId, date } }): the rows found (none or one)
FindOneByUserDate(rows, userId, date) ==
  {r \in rows : r.userId = userId /\ r.date = date}

\* findOne without userId in its where clause.
FindOneById_AnyUser(rows, id, userId) == {r \in rows : r.id = id}

\* Streak.findOne({ where: { id, userId } })
FindOneById(rows, id, userId) ==
  {r \in rows : r.id = id /\ r.userId = userId}

\* An index that is not unique: nothing is refused.
UniqueViolation_NoIndex(rows, row) == FALSE

\* streak.model.js:48-54  the unique index on (userId, date): the store
\* refuses a row whose pair another row has.
UniqueViolation(rows, row) ==
  \E r \in rows :
    r.id # row.id /\ r.userId = row.userId /\ r.date = row.date

\* INSERT, UPDATE ... WHERE id, DELETE ... WHERE id
Insert(rows, row) == rows \cup {row}
UpdateById(rows, id, changes) ==
  {IF r.id = id THEN changes @@ r ELSE r : r \in rows}
DestroyById(rows, id) == {r \in rows : r.id # id}

\* instance.update(values): only the fields whose value differs from the
\* instance's are written.
Changed(instance, values) ==
  [f \in {g \in DOMAIN values : values[g] # instance[g]} |-> values[f]]

\* streak.controller.js:170-175  the values updateStreak passes to update
UpdateValues(body, off) ==
  (IF body.date # Undefined THEN [date |-> ColumnDate(body.date, off)] ELSE <<>>)
  @@ (IF body.description # UndefinedText
      THEN [description |-> body.description] ELSE <<>>)
  @@ (IF body.language # UndefinedText THEN [language |-> body.language]
      ELSE <<>>)
  @@ (IF body.commitCount # Undefined THEN [commitCount |-> body.commitCount]
      ELSE <<>>)

\* An update that counts the sync itself as one more contribution.
SyncValues_OneMore(count) == [commitCount |-> count + 1, source |-> "github"]

\* An update of the count that leaves the source as it is.
SyncValues_CountOnly(count) == [commitCount |-> count]

\* streak.controller.js:330-333  the values the sync passes to update
SyncValues(count) == [commitCount |-> count, source |-> "github"]

\* A guard that refuses every edit of a GitHub row.
UpdateRefused_AnyEdit(row, body) == row.source = "github"

\* A guard that looks at the commit count only.
UpdateRefused_CommitCountOnly(row, body) ==
  row.source = "github" /\ TruthyNumber(body.commitCount)

\* streak.controller.js:163  the guard of updateStreak
UpdateRefused(row, body) ==
  /\ row.source = "github"
  /\ (body.date # Undefined \/ TruthyNumber(body.commitCount))

\* A create that passes commitCount on as the body has it, without `|| 0`.
CreatedRow_NoDefault(h, userId, body, off) ==
  StreakRow(NewId(h, userId, ColumnDate(body.date, off)), userId,
            ColumnDate(body.date, off),
            IF body.description = UndefinedText THEN NullText
            ELSE body.description,
            IF body.language = UndefinedText THEN NullText ELSE body.language,
            "manual", body.commitCount)

\* streak.controller.js:122-129  the row createStreak creates
CreatedRow(h, userId, body, off) ==
  StreakRow(NewId(h, userId, ColumnDate(body.date, off)), userId,
            ColumnDate(body.date, off),
            IF body.description = UndefinedText THEN NullText
            ELSE body.description,
            IF body.language = UndefinedText THEN NullText ELSE body.language,
            "manual",
            IF TruthyNumber(body.commitCount) THEN body.commitCount ELSE 0)

\* streak.controller.js:337-343  the row the sync creates for a day
SyncedRow(h, userId, day, count, off) ==
  StreakRow(NewId(h, userId, ColumnDate(day, off)), userId,
            ColumnDate(day, off),
            "GitHub: " \o ToString(count) \o " contribution(s)", NullText,
            "github", count)

\* A request that has been answered.
Finished == [pc |-> "done"]

NoResponse ==
  [n |-> 0, op |-> "", user |-> "", id |-> MissingId, status |-> 0,
   createdCount |-> 0, updatedCount |-> 0, days |-> <<>>]

\* res.status(status).json(...) or next(error) for request n
Respond(n, op, user, id, status) ==
  [n |-> n, op |-> op, user |-> user, id |-> id, status |-> status,
   createdCount |-> 0, updatedCount |-> 0, days |-> <<>>]

(***************************************************************************)
(* State: the table and one calculateCurrentStreak call.                   *)
(***************************************************************************)
\* A row as createStreak writes it (streak.controller.js:122-129).
ManualRow(userId, date) ==
  StreakRow(NewId(0, userId, date), userId, date, NullText, NullText,
            "manual", 0)

\* calc.again: the call before this one was for the same user, on the same
\* day of the server's zone, at an earlier clock reading.
NoCall ==
  [called |-> FALSE, userId |-> "", dates |-> {}, now |-> 0,
   again |-> FALSE, result |-> EmptyResult]

\* Any table the unique (userId, date) index allows, any server zone, and a
\* clock reading on day MaxDay.
InitStreak ==
  /\ \E keys \in SUBSET (Users \X Days) :
       streaks = {ManualRow(k[1], k[2]) : k \in keys}
  /\ tz \in TZOffsets
  /\ \E h \in HoursOfDay : now = MaxDay * MS_PER_DAY + h * MS_PER_HOUR
  /\ calc = NoCall
  /\ handlers = <<>>
  /\ res = NoResponse
  /\ cache = EmptyCaches
  /\ tasks = <<>>
  /\ provider = <<>>
  /\ composites = <<>>

\* getStreakStats (streak.controller.js:232-235) calling the model method.
CalculateCall(userId) ==
  /\ calc' = [called |-> TRUE, userId |-> userId,
              dates |-> {r.date : r \in {s \in streaks : s.userId = userId}},
              now |-> now,
              again |-> /\ calc.called
                        /\ calc.userId = userId
                        /\ calc.now < now
                        /\ (calc.now + tz) \div MS_PER_DAY
                             = (now + tz) \div MS_PER_DAY,
              result |-> CalculateCurrentStreak(
                           FindAllDatesDesc(streaks, userId), now, tz)]
  /\ UNCHANGED <<streaks, tz, now, handlers, res>>
  /\ UNCHANGED cacheVars

\* Hours pass: the clock reads a later hour of HoursOfDay.
HoursPass ==
  /\ \E h \in HoursOfDay :
       /\ MaxDay * MS_PER_DAY + h * MS_PER_HOUR > now
       /\ now' = MaxDay * MS_PER_DAY + h * MS_PER_HOUR
  /\ UNCHANGED <<streaks, tz, calc, handlers, res>>
  /\ UNCHANGED cacheVars

NextStreak ==
  \/ \E u \in Users : CalculateCall(u)
  \/ HoursPass

SpecStreak == InitStreak /\ [][NextStreak]_vars

(***************************************************************************)
(* The streak controller (streak.controller.js:67-366).  A handler runs    *)
(* from the arrival of its request to its first query, and then from one   *)
(* awaited query to the next; other requests run in between.               *)
(***************************************************************************)
\* The frame of a controller step.
StoreFrame ==
  /\ UNCHANGED <<tz, now, calc>>
  /\ UNCHANGED cacheVars

Arrives == Len(handlers) < MaxRequests

\* The request is answered on arrival, without a write.
AnswerOnArrival(r) ==
  /\ handlers' = Append(handlers, Finished)
  /\ res' = r
  /\ UNCHANGED streaks

\* The request waits for its next query.
Suspend(handler) ==
  /\ handlers' = Append(handlers, handler)
  /\ UNCHANGED <<streaks, res>>

\* streak.controller.js:67-91  getStreakById
GetStreakById(userId, id) ==
  /\ Arrives
  /\ LET n == Len(handlers) + 1
         streak == FindOneById(streaks, id, userId)
     IN AnswerOnArrival(Respond(n, "getStreakById", userId, id,
                                IF streak = {} THEN 404 ELSE 200))
  /\ StoreFrame

\* streak.controller.js:97-119  createStreak to the await of Streak.create
CreateStreak(userId, body) ==
  /\ Arrives
  /\ LET n == Len(handlers) + 1
     IN IF body.date = Undefined
        THEN AnswerOnArrival(Respond(n, "createStreak", userId, MissingId, 400))
        ELSE IF FindOneByUserDate(streaks, userId, ColumnDate(body.date, tz)) # {}
             THEN AnswerOnArrival(
                    Respond(n, "createStreak", userId, MissingId, 400))
             ELSE Suspend([op |-> "createStreak", user |-> userId,
                           body |-> body, pc |-> "create"])
  /\ StoreFrame

\* streak.controller.js:122-139  Streak.create and the response; a refused
\* insert is passed to next(error) and answered 500.
CreateStreakInsert(h) ==
  /\ handlers[h].pc = "create"
  /\ LET t == handlers[h]
         row == CreatedRow(h, t.user, t.body, tz)
     IN IF UniqueViolation(streaks, row)
        THEN /\ res' = Respond(h, "createStreak", t.user, MissingId, 500)
             /\ UNCHANGED streaks
        ELSE /\ res' = Respond(h, "createStreak", t.user, row.id, 201)
             /\ streaks' = Insert(streaks, row)
  /\ handlers' = [handlers EXCEPT ![h] = Finished]
  /\ StoreFrame

\* streak.controller.js:146-167  updateStreak to the await of update
UpdateStreak(userId, id, body) ==
  /\ Arrives
  /\ LET n == Len(handlers) + 1
         found == FindOneById(streaks, id, userId)
     IN IF found = {}
        THEN AnswerOnArrival(Respond(n, "updateStreak", userId, id, 404))
        ELSE LET streak == CHOOSE r \in found : TRUE
             IN IF UpdateRefused(streak, body)
                THEN AnswerOnArrival(
                       Respond(n, "updateStreak", userId, id, 400))
                ELSE Suspend([op |-> "updateStreak", user |-> userId,
                              id |-> id, body |-> body, streak |-> streak,
                              pc |-> "update"])
  /\ StoreFrame

\* streak.controller.js:170-185  streak.update(...) and the response
UpdateStreakSave(h) ==
  /\ handlers[h].pc = "update"
  /\ LET t == handlers[h]
         changes == Changed(t.streak, UpdateValues(t.body, tz))
         after == UpdateById(streaks, t.id, changes)
         row == CHOOSE r \in after : r.id = t.id
     IN IF /\ \E r \in streaks : r.id = t.id
           /\ "date" \in DOMAIN changes
           /\ UniqueViolation(streaks, row)
        THEN /\ res' = Respond(h, "updateStreak", t.user, t.id, 500)
             /\ UNCHANGED streaks
        ELSE /\ res' = Respond(h, "updateStreak", t.user, t.id, 200)
             /\ streaks' = after
  /\ handlers' = [handlers EXCEPT ![h] = Finished]
  /\ StoreFrame

\* streak.controller.js:192-212  deleteStreak to the await of destroy
DeleteStreak(userId, id) ==
  /\ Arrives
  /\ LET n == Len(handlers) + 1
         found == FindOneById(streaks, id, userId)
     IN IF found = {}
        THEN AnswerOnArrival(Respond(n, "deleteStreak", userId, id, 404))
        ELSE IF (CHOOSE r \in found : TRUE).source = "github"
             THEN AnswerOnArrival(
                    Respond(n, "deleteStreak", userId, id, 400))
             ELSE Suspend([op |-> "deleteStreak", user |-> userId,
                           id |-> id, pc |-> "destroy"])
  /\ StoreFrame

\* streak.controller.js:215-220  streak.destroy() and the response
DeleteStreakDestroy(h) ==
  /\ handlers[h].pc = "destroy"
  /\ streaks' = DestroyById(streaks, handlers[h].id)
  /\ res' = Respond(h, "deleteStreak", handlers[h].user, handlers[h].id, 204)
  /\ handlers' = [handlers EXCEPT ![h] = Finished]
  /\ StoreFrame

\* The contribution days the loop writes a row for
\* (streak.controller.js:317-319): those with contributionCount > 0, in
\* the calendar's order.
RECURSIVE ContributionDays(_, _)
ContributionDays(calendar, i) ==
  IF i > Len(calendar) THEN <<>>
  ELSE (IF calendar[i][2] > 0 THEN <<calendar[i]>> ELSE <<>>)
       \o ContributionDays(calendar, i + 1)

\* The response of a finished sync (streak.controller.js:350-357); days
\* records the contribution days the request had walked.
SyncDone(n, userId, createdCount, updatedCount, days) ==
  [Respond(n, "syncGitHubContributions", userId, MissingId, 200)
     EXCEPT !.createdCount = createdCount, !.updatedCount = updatedCount,
            !.days = days]

\* streak.controller.js:296-319  syncGitHubContributions, from the request
\* to the first findOne: no GitHub username is answered 400, a failed
\* getContributionData 500, and a calendar is walked day by day.
SyncGitHubContributions(userId, githubUsername, fetched, calendar) ==
  /\ Arrives
  /\ LET n == Len(handlers) + 1
         days == ContributionDays(calendar, 1)
     IN IF githubUsername = ""
        THEN AnswerOnArrival(
               Respond(n, "syncGitHubContributions", userId, MissingId, 400))
        ELSE IF ~fetched
             THEN AnswerOnArrival(
                    Respond(n, "syncGitHubContributions", userId, MissingId, 500))
             ELSE IF days = <<>>
                  THEN AnswerOnArrival(SyncDone(n, userId, 0, 0, days))
                  ELSE Suspend([op |-> "syncGitHubContributions",
                                user |-> userId, days |-> days,
                                calendar |-> days,
                                createdCount |-> 0, updatedCount |-> 0,
                                pc |-> "find"])
  /\ StoreFrame

\* streak.controller.js:321-326  the findOne of the next contribution day
SyncFind(h) ==
  /\ handlers[h].pc = "find"
  /\ LET t == handlers[h]
         existingStreak ==
           FindOneByUserDate(streaks, t.user, ColumnDate(t.days[1][1], tz))
     IN handlers' = [handlers EXCEPT
                       ![h] = [op |-> t.op, user |-> t.user, days |-> t.days,
                               calendar |-> t.calendar,
                               createdCount |-> t.createdCount,
                               updatedCount |-> t.updatedCount,
                               existingStreak |-> existingStreak,
                               pc |-> "write"]]
  /\ UNCHANGED <<streaks, res>>
  /\ StoreFrame

\* streak.controller.js:328-365  the update or create of the day, then the
\* next day's findOne or the response; a refused insert ends the sync in
\* its catch with 500.
SyncWrite(h) ==
  /\ handlers[h].pc = "write"
  /\ LET t == handlers[h]
         day == t.days[1][1]
         count == t.days[1][2]
         rest == Tail(t.days)
         Continue(createdCount, updatedCount) ==
           IF rest = <<>>
           THEN /\ handlers' = [handlers EXCEPT ![h] = Finished]
                /\ res' = SyncDone(h, t.user, createdCount, updatedCount,
                                    t.calendar)
           ELSE /\ handlers' = [handlers EXCEPT
                                  ![h] = [op |-> t.op, user |-> t.user,
                                          days |-> rest,
                                          calendar |-> t.calendar,
                                          createdCount |-> createdCount,
                                          updatedCount |-> updatedCount,
                                          pc |-> "find"]]
                /\ UNCHANGED res
     IN IF t.existingStreak # {}
        THEN LET existing == CHOOSE r \in t.existingStreak : TRUE
             IN /\ streaks' = UpdateById(streaks, existing.id,
                                         Changed(existing, SyncValues(count)))
                /\ Continue(t.createdCount, t.updatedCount + 1)
        ELSE LET row == SyncedRow(h, t.user, day, count, tz)
             IN IF UniqueViolation(streaks, row)
                THEN /\ UNCHANGED streaks
                     /\ handlers' = [handlers EXCEPT ![h] = Finished]
                     /\ res' = Respond(h, "syncGitHubContributions", t.user,
                                       MissingId, 500)
                ELSE /\ streaks' = Insert(streaks, row)
                     /\ Continue(t.createdCount + 1, t.updatedCount)
  /\ StoreFrame

(***************************************************************************)
(* The streak controller under concurrent requests (SpecStore).            *)
(***************************************************************************)
BodyDays == 1..MaxBodyDay

\* Bodies of POST /streaks and PATCH /streaks/:id
EmptyBody ==
  [date |-> Undefined, description |-> UndefinedText,
   language |-> UndefinedText, commitCount |-> Undefined]

\* POST: no date, a date, a date with a commit count.
CreateBodies ==
  {EmptyBody}
  \cup {[EmptyBody EXCEPT !.date = d] : d \in BodyDays}
  \cup {[EmptyBody EXCEPT !.date = 1, !.commitCount = 3]}

\* PATCH: nothing, each field alone (commitCount 0 and 3), and every field.
UpdateBodies ==
  {EmptyBody}
  \cup {[EmptyBody EXCEPT !.date = d] : d \in BodyDays}
  \cup {[EmptyBody EXCEPT !.commitCount = c] : c \in {0, 3}}
  \cup {[EmptyBody EXCEPT !.description = "note"],
        [EmptyBody EXCEPT !.language = "js"],
        [date |-> 1, description |-> "note", language |-> "js",
         commitCount |-> 3]}

\* The ids a request can name: a row's id, or one no row has.
RequestIds == {r.id : r \in streaks} \cup {MissingId}

\* The contribution calendars GitHub answers with: a count for each day.
ContributionCounts == {0, 2}
ContributionCalendars ==
  {[d \in BodyDays |-> <<d, c[d]>>] : c \in [BodyDays -> ContributionCounts]}

\* A row createStreak has written before the run, with a description and a
\* language.
NotedRow(userId, date) ==
  StreakRow(NewId(0, userId, date), userId, date, "note", "js", "manual", 0)

\* A row the sync has written before the run.
GitHubRow(userId, date) ==
  StreakRow(NewId(0, userId, date), userId, date,
            "GitHub: 2 contribution(s)", NullText, "github", 2)

\* The (user, date) pairs that may have a row before the run: any day of
\* the first user, the first day of the others.
InitKeys == {k \in Users \X BodyDays : k[1] = "u1" \/ k[2] = 1}

\* Any table the unique index allows, of rows created manually or by a sync.
InitStore ==
  /\ \E manual \in SUBSET InitKeys :
       \E github \in SUBSET (InitKeys \ manual) :
         streaks = {NotedRow(k[1], k[2]) : k \in manual}
                   \cup {GitHubRow(k[1], k[2]) : k \in github}
  /\ tz \in TZOffsets
  /\ now = 0
  /\ calc = NoCall
  /\ handlers = <<>>
  /\ res = NoResponse
  /\ cache = EmptyCaches
  /\ tasks = <<>>
  /\ provider = <<>>
  /\ composites = <<>>

NextStore ==
  \/ \E u \in Users : \E id \in RequestIds : GetStreakById(u, id)
  \/ \E u \in Users : \E body \in CreateBodies : CreateStreak(u, body)
  \/ \E h \in DOMAIN handlers : CreateStreakInsert(h)
  \/ \E u \in Users : \E id \in RequestIds : \E body \in UpdateBodies :
       UpdateStreak(u, id, body)
  \/ \E h \in DOMAIN handlers : UpdateStreakSave(h)
  \/ \E u \in Users : \E id \in RequestIds : DeleteStreak(u, id)
  \/ \E h \in DOMAIN handlers : DeleteStreakDestroy(h)
  \/ \E u \in Users : \E name \in {"", "octo"} : \E fetched \in BOOLEAN :
       \E calendar \in ContributionCalendars :
         SyncGitHubContributions(u, name, fetched, calendar)
  \/ \E h \in DOMAIN handlers : SyncFind(h)
  \/ \E h \in DOMAIN handlers : SyncWrite(h)

SpecStore == InitStore /\ [][NextStore]_vars

\* The requests that read and edit single rows: no sync runs.
NextEdits ==
  \/ \E u \in Users : \E id \in RequestIds : GetStreakById(u, id)
  \/ \E u \in Users : \E body \in CreateBodies : CreateStreak(u, body)
  \/ \E h \in DOMAIN handlers : CreateStreakInsert(h)
  \/ \E u \in Users : \E id \in RequestIds : \E body \in UpdateBodies :
       UpdateStreak(u, id, body)
  \/ \E h \in DOMAIN handlers : UpdateStreakSave(h)
  \/ \E u \in Users : \E id \in RequestIds : DeleteStreak(u, id)
  \/ \E h \in DOMAIN handlers : DeleteStreakDestroy(h)

SpecEdits == InitStore /\ [][NextEdits]_vars

(***************************************************************************)
(* The services under direct calls (SpecCache) and under composite calls   *)
(* (SpecComposite).                                                        *)
(***************************************************************************)
InitCache ==
  /\ streaks = {}
  /\ tz = 0
  /\ calc = NoCall
  /\ handlers = <<>>
  /\ res = NoResponse
  /\ now = 0
  /\ cache = EmptyCaches
  /\ tasks = <<>>
  /\ provider = <<>>
  /\ composites = <<>>

\* <<githubUsername, githubToken>> of two users as getMyGitHubData reads them
\* from the Users table and passes them to the service unchecked:
\* updateProfile stores any githubUsername of the body, linkGitHubAccount
\* any githubToken getUserProfile succeeds with (tokens of the ghp_ form
\* contain '_', classic ones do not).
LinkedAccounts == {<<"octo", "ghp_abc">>, <<"octo_ghp", "abc">>}

\* The cachedRequest calls the service methods make for the controllers:
\* <<service, endpoint, token or stringified params>>.
DirectCalls ==
  {<<"github", UserEndpoint(u), t>> : u \in GitHubUsernames, t \in Tokens}
  \cup {<<"github", UserEndpoint(a[1]), a[2]>> : a \in LinkedAccounts}
  \cup {<<"github", ReposEndpoint(u, 10), "">> : u \in GitHubUsernames}
  \cup {<<"stackoverflow", SOProfileEndpoint(u), JSONStringify(SOProfileParams)>> :
          u \in StackOverflowUserIds}

NextCache ==
  \/ \E c \in DirectCalls : CachedRequestCall(c[1], c[2], c[3])
  \/ \E i \in DOMAIN tasks : ProviderResolve(i)
  \/ \E i \in DOMAIN tasks : \E e \in ProviderErrors(tasks[i].svc) : ProviderReject(i, e)
  \/ Tick

SpecCache == InitCache /\ [][NextCache]_vars

\* Tokens of the users who ask for a composite profile.
CompositeTokens == {"", "t1"}

\* The cachedRequest calls a getComprehensiveProfile call can make, in
\* the order it makes them: <<endpoint, token or stringified params>>.
CompositeRequests(svc, user, token) ==
  IF svc = "github"
  THEN << <<UserEndpoint(user), token>>, <<ReposEndpoint(user, 10), token>>,
          <<ReposEndpoint(user, 6), token>> >>
  ELSE << <<SOProfileEndpoint(user), JSONStringify(SOProfileParams)>>,
          <<SOQuestionsEndpoint(user), JSONStringify(SOQuestionsParams(1, 10))>>,
          <<SOAnswersEndpoint(user), JSONStringify(SOAnswersParams(1, 10))>>,
          <<SOTopTagsEndpoint(user), JSONStringify(SOTagFilterParams)>>,
          <<SOReputationEndpoint(user), JSONStringify(SOTagFilterParams)>> >>

CompositeInputs ==
  {<<"github", u, t>> : u \in GitHubUsernames, t \in CompositeTokens}
  \cup {<<"stackoverflow", u, "">> : u \in StackOverflowUserIds}

\* The requests of an earlier call that were answered: those of R whose
\* index is in I, as the provider saw them.
RECURSIVE AnsweredRequests(_, _, _, _)
AnsweredRequests(svc, R, I, i) ==
  IF i > Len(R) THEN <<>>
  ELSE (IF i \in I
        THEN <<[svc |-> svc, url |-> R[i][1], auth |-> RequestAuth(svc, R[i][2]),
                cred |-> R[i][2], by |-> 0]>>
        ELSE <<>>)
       \o AnsweredRequests(svc, R, I, i + 1)

\* The cache after the answered requests log[1..] were written at time t.
RECURSIVE CacheAfter(_, _, _, _)
CacheAfter(log, i, t, c) ==
  IF i > Len(log) THEN c
  ELSE CacheAfter(log, i + 1, t,
         CacheWrite(c, CacheKey(log[i].svc, log[i].url, log[i].cred),
                    PayloadOfRequest(log[i], i), t))

\* The state an earlier getComprehensiveProfile call made at time 0 has
\* left: any subset of its cachedRequest calls was answered and cached.
\* The clock now reads one second later (the entries are fresh) or
\* CACHE_DURATION later (they have just become stale).
InitComposite ==
  /\ streaks = {}
  /\ tz = 0
  /\ calc = NoCall
  /\ handlers = <<>>
  /\ res = NoResponse
  /\ tasks = <<>>
  /\ composites = <<>>
  /\ \E in \in CompositeInputs :
       \E I \in SUBSET (1..Len(CompositeRequests(in[1], in[2], in[3]))) :
         LET log == AnsweredRequests(in[1], CompositeRequests(in[1], in[2], in[3]),
                                     I, 1)
         IN /\ provider = [k \in DOMAIN log |->
                             [svc |-> log[k].svc, url |-> log[k].url,
                              auth |-> log[k].auth, by |-> 0,
                              outcome |-> "ok", error |-> None]]
            /\ cache = [EmptyCaches EXCEPT
                          ![in[1]] = CacheAfter(log, 1, 0, EmptyCache)]
  /\ now \in {MS_PER_SEC, CACHE_DURATION * MS_PER_SEC}

NextComposite ==
  \/ \E u \in GitHubUsernames : \E t \in CompositeTokens : GitHubComprehensiveProfile(u, t)
  \/ \E u \in StackOverflowUserIds : StackOverflowComprehensiveProfile(u)
  \/ \E i \in DOMAIN tasks : ProviderResolve(i)
  \/ \E i \in DOMAIN tasks : ProviderReject(i, ServerError)
  \/ \E i \in DOMAIN tasks : GraphQLResolve(i)
  \/ \E i \in DOMAIN tasks : \E e \in GraphQLFailures : GraphQLFail(i, e)
  \/ Tick

\* One getComprehensiveProfile call on the cache an earlier one has left.
SpecComposite == InitComposite /\ [][NextComposite]_vars

\* A provider answers a request that is waiting: axios settles its promise.
ProviderAnswers ==
  \E i \in DOMAIN tasks :
    \/ ProviderResolve(i)
    \/ ProviderReject(i, ServerError)
    \/ GraphQLResolve(i)
    \/ \E e \in GraphQLFailures : GraphQLFail(i, e)

\* The composite call arrives before any response has been cached.
InitCold == InitComposite /\ cache = EmptyCaches

\* A service method is called again for the user of composite call cid
\* after that call has thrown (github.controller.js getUserProfile,
\* getUserRepositories and the like): its k-th cachedRequest call.
LaterCall(cid, k) ==
  /\ composites[cid].st = "threw"
  /\ NumCalls < MaxLaterCalls
  /\ LET c == composites[cid]
         r == CompositeRequests(c.svc, c.user, c.token)[k]
     IN CachedRequestCall(c.svc, r[1], r[2])

NextLater ==
  \/ NextComposite
  \/ \E cid \in DOMAIN composites :
       \E k \in DOMAIN CompositeRequests(composites[cid].svc, composites[cid].user,
                                         composites[cid].token) :
         LaterCall(cid, k)

\* One composite call on a cold cache and the calls that follow its failure.
SpecLater == InitCold /\ [][NextLater]_vars

\* One composite call, with providers that answer every request in the end.
SpecCompositeFair ==
  InitCold /\ [][NextComposite]_vars /\ WF_vars(ProviderAnswers)

(***************************************************************************)
(* What the streak claims speak of.                                        *)
(***************************************************************************)
\* The calendar day of the call in the server's configured time zone.
Today == (calc.now + tz) \div MS_PER_DAY
Yesterday == Today - 1

\* The length of the run of consecutive days of S that ends at day d.
RECURSIVE RunEndingAt(_, _)
RunEndingAt(S, d) == IF d \in S THEN 1 + RunEndingAt(S, d - 1) ELSE 0

LongestRun(S) == MaxOf({RunEndingAt(S, d) : d \in S})

DayOfDate(dateObj) == dateObj[1] \div MS_PER_DAY

(***************************************************************************)
(* Claims about Streak.calculateCurrentStreak, under SpecStreak.           *)
(***************************************************************************)
Called == calc.called /\ calc.dates # {}
MostRecent == MaxOf(calc.dates)

\* C1: whenever the user's most recent date is today or yesterday,
\* currentStreak is the length of the run of consecutive days that contains
\* the most recent date.
C1_CurrentStreakIsMostRecentRun ==
  (Called /\ MostRecent \in {Today, Yesterday})
    => calc.result.currentStreak = RunEndingAt(calc.dates, MostRecent)

\* C7: for every non-empty set of dates longestStreak is the length of the
\* longest run of consecutive days, and {D, D-1, D-2} with D = today gives
\* currentStreak 3 and longestStreak 3.
C7_LongestRunAndThreeDayExample ==
  Called =>
    /\ calc.result.longestStreak = LongestRun(calc.dates)
    /\ (calc.dates = {Today, Today - 1, Today - 2}
          => /\ calc.result.currentStreak = 3
             /\ calc.result.longestStreak = 3)

\* C8: longestStreak >= currentStreak in every result.
C8_LongestAtLeastCurrent ==
  calc.called => calc.result.longestStreak >= calc.result.currentStreak

C8_Witness ==
  /\ Called
  /\ calc.result.currentStreak >= 1
  /\ calc.result.longestStreak > calc.result.currentStreak

\* C9: when the most recent date is strictly earlier than yesterday,
\* currentStreak is 0 and longestStreak is still the longest run.
C9_StaleMostRecentGivesZero ==
  (Called /\ MostRecent < Yesterday)
    => /\ calc.result.currentStreak = 0
       /\ calc.result.longestStreak = LongestRun(calc.dates)

C9_Witness ==
  /\ Called
  /\ MostRecent < Yesterday
  /\ calc.result.longestStreak >= 2

\* C10: for a user without records the result is exactly
\* {currentStreak: 0, longestStreak: 0, lastActiveDate: null}.
C10_EmptyGivesZeroResult ==
  (calc.called /\ calc.dates = {})
    => calc.result =
         [currentStreak |-> 0, longestStreak |-> 0, lastActiveDate |-> NULL]

C10_Witness ==
  /\ calc.called
  /\ calc.dates = {}
  /\ \E r \in streaks : r.userId # calc.userId

(***************************************************************************)
(* Claims about cachedRequest, under SpecCache.                            *)
(***************************************************************************)
\* The provider requests call i has sent.
CallsOf(log, i) == Cardinality({k \in DOMAIN log : log[k].by = i})

CachedTasks(ts) == {i \in DOMAIN ts : ts[i].op = "cachedRequest"}

\* Call i is the first cachedRequest for its key.
FirstForKey(ts, i) ==
  \A j \in 1..(i - 1) : ~(ts[j].svc = ts[i].svc /\ ts[j].key = ts[i].key)

\* The entry of the key exists and is fresh at time t, in the claims' words:
\* now - storedAt < cacheDuration.
FreshAt(c, key, t) ==
  /\ key \in DOMAIN c.data
  /\ t - c.timestamps[key] < CACHE_DURATION * MS_PER_SEC

\* A step that makes a direct cachedRequest call.
C2_CallStep ==
  Len(tasks') = Len(tasks) + 1 =>
    LET i == Len(tasks')
        t == tasks'[i]
    IN /\ FirstForKey(tasks', i) => CallsOf(provider', i) = 1
       /\ FreshAt(cache[t.svc], t.key, t.now) =>
            /\ provider' = provider
            /\ t.st = "returned"
            /\ t.value = cache[t.svc].data[t.key]
            /\ cache' = cache

C2_Returned ==
  \A i \in CachedTasks(tasks) :
    /\ FirstForKey(tasks, i) => CallsOf(provider, i) = 1
    /\ (tasks[i].st = "returned" /\ CallsOf(provider, i) = 1)
         => tasks[i].value = Payload(RequestOf(i))

\* C2: the first cachedRequest for a key sends exactly one request and
\* returns its response; a later call for the key made while
\* now - storedAt < cacheDuration sends none, returns the stored payload and
\* leaves the entry (payload and storedAt) as it was.
C2_FirstCallFetchesFreshCallsHit == [][C2_CallStep /\ C2_Returned']_vars

C2_Witness ==
  \E i \in CachedTasks(tasks) :
    /\ tasks[i].st = "returned"
    /\ CallsOf(provider, i) = 0
    /\ tasks[i].now > cache[tasks[i].svc].timestamps[tasks[i].key]
    /\ \E j \in 1..(i - 1) :
         /\ tasks[j].key = tasks[i].key
         /\ tasks[j].st = "returned"
         /\ tasks[i].value = tasks[j].value

\* C3: for one endpoint, calls with different credentials (a token, another
\* token, none) never use the same cache entry, and a call is never
\* returned a response that was fetched under another credential.
C3_CredentialsNeverShareEntries ==
  /\ \A i, j \in CachedTasks(tasks) :
       (/\ tasks[i].svc = "github" /\ tasks[j].svc = "github"
        /\ tasks[i].endpoint = tasks[j].endpoint
        /\ tasks[i].key = tasks[j].key)
         => tasks[i].cred = tasks[j].cred
  /\ \A i \in CachedTasks(tasks) :
       (tasks[i].svc = "github" /\ tasks[i].st = "returned")
         => tasks[i].value.auth = GetHeaders(tasks[i].cred)

\* A step in which a provider request fails.
C4_FailStep ==
  (\E k \in DOMAIN provider :
     provider[k].outcome = "pending" /\ provider'[k].outcome = "failed")
    => /\ cache' = cache
       /\ Len(provider') = Len(provider)

C4_Failed ==
  \A k \in DOMAIN provider :
    (provider[k].outcome = "failed" /\ tasks[provider[k].by].op = "cachedRequest")
      => LET i == provider[k].by
         IN /\ tasks[i].st = "threw"
            /\ tasks[i].value.kind = "error"
            /\ CallsOf(provider, i) = 1
            /\ \A svc \in Services : \A key \in DOMAIN cache[svc].data :
                 cache[svc].data[key].ver # k

\* C4: when the request sent on a miss or a stale entry fails, cachedRequest
\* throws an error (no stale payload is returned), it has sent exactly one
\* request, and the failure creates and changes no cache entry.
C4_FailureThrowsAndCachesNothing == [][C4_FailStep /\ C4_Failed']_vars

C4_Witness ==
  \E i \in CachedTasks(tasks) :
    /\ tasks[i].st = "threw"
    /\ tasks[i].key \in DOMAIN cache[tasks[i].svc].data
    /\ tasks[i].now - cache[tasks[i].svc].timestamps[tasks[i].key]
         >= CACHE_DURATION * MS_PER_SEC

(***************************************************************************)
(* Claims about getComprehensiveProfile, under SpecComposite.              *)
(***************************************************************************)
TasksOf(cid) == {i \in DOMAIN tasks : tasks[i].owner = cid}

\* The pinned-items primary retrieval of composite call cid.
PinnedPrimary(cid) ==
  CHOOSE i \in TasksOf(cid) :
    tasks[i].op = "graphql" /\ tasks[i].facet = "pinnedRepositories"

IsPinnedPrimary(i) ==
  tasks[i].op = "graphql" /\ tasks[i].facet = "pinnedRepositories"

\* A facet fetch of call cid, other than the pinned primary, has failed.
FacetFetchFailed(cid) ==
  \E k \in DOMAIN provider :
    /\ provider[k].outcome = "failed"
    /\ provider[k].by \in TasksOf(cid)
    /\ ~IsPinnedPrimary(provider[k].by)

\* C5: every facet fetch is started in the step of the call, before any is
\* awaited; when a facet fetch other than the pinned-items primary
\* retrieval fails, the call throws an error and returns no payload.
C5_AnyFacetFailureRejectsWhole ==
  \A cid \in DOMAIN composites :
    /\ \A f \in FacetsOf(composites[cid].svc) :
         \E i \in TasksOf(cid) :
           /\ tasks[i].facet = f
           /\ \A j \in TasksOf(cid) : tasks[i].now <= tasks[j].now
    /\ FacetFetchFailed(cid)
         => /\ composites[cid].st = "threw"
            /\ composites[cid].value.kind = "error"

C5_Witness ==
  \E cid \in DOMAIN composites :
    /\ FacetFetchFailed(cid)
    /\ composites[cid].st = "threw"
    /\ \E i \in TasksOf(cid) : tasks[i].st = "returned"
    /\ \E i \in TasksOf(cid) : tasks[i].st = "awaiting"

PinnedPrimaryFailed(cid) ==
  /\ composites[cid].svc = "github"
  /\ tasks[PinnedPrimary(cid)].st = "caught"

OtherFacetsSucceeded(cid) ==
  \A f \in {"profile", "repositories", "contributions"} :
    FacetTask(tasks, cid, f).st = "returned"

\* C6 as stated: when the pinned-items primary retrieval has failed and the
\* profile, repositories and contribution facets have succeeded, the call
\* succeeds with the fallback's result in pinnedRepositories.
C6_PinnedFailureStillSucceeds ==
  \A cid \in DOMAIN composites :
    (/\ PinnedPrimaryFailed(cid)
     /\ OtherFacetsSucceeded(cid)
     /\ FacetTask(tasks, cid, "pinnedRepositories").st # "awaiting")
      => /\ composites[cid].st = "returned"
         /\ composites[cid].value.pinnedRepositories
              = FacetTask(tasks, cid, "pinnedRepositories").value

\* C6, amended: when the pinned-items primary retrieval has failed, the
\* fallback getUserRepositories(username, token, 6) is called in its place;
\* if the other three facets and this fallback succeed, the call succeeds
\* with the fallback's result in pinnedRepositories, and if the fallback
\* itself fails, the call throws an error.
C6_PinnedFallbackWhenFallbackSucceeds ==
  \A cid \in DOMAIN composites :
    PinnedPrimaryFailed(cid) =>
      LET fb == FacetTask(tasks, cid, "pinnedRepositories")
      IN /\ fb.op = "cachedRequest"
         /\ fb.endpoint = ReposEndpoint(composites[cid].user, 6)
         /\ fb.cred = composites[cid].token
         /\ (OtherFacetsSucceeded(cid) /\ fb.st = "returned")
              => /\ composites[cid].st = "returned"
                 /\ composites[cid].value.pinnedRepositories = fb.value
                 /\ fb.value.url = ReposEndpoint(composites[cid].user, 6)
         /\ fb.st = "threw"
              => /\ composites[cid].st = "threw"
                 /\ composites[cid].value.kind = "error"

C6_Witness ==
  \E cid \in DOMAIN composites :
    /\ PinnedPrimaryFailed(cid)
    /\ OtherFacetsSucceeded(cid)
    /\ composites[cid].st = "returned"
    /\ composites[cid].value.pinnedRepositories.kind = "payload"

(***************************************************************************)
(* Claims about the lifecycle of a cache entry, under SpecCache.           *)
(***************************************************************************)
\* The entry of the key exists and is stale at time t:
\* now - storedAt >= cacheDuration.
StaleAt(c, key, t) ==
  /\ key \in DOMAIN c.data
  /\ t - c.timestamps[key] >= CACHE_DURATION * MS_PER_SEC

\* A step that makes a cachedRequest call.
C11_CallStep ==
  Len(tasks') = Len(tasks) + 1 =>
    LET i == Len(tasks')
        t == tasks'[i]
    IN /\ StaleAt(cache[t.svc], t.key, t.now)
            => /\ CallsOf(provider', i) = 1
               /\ t.st = "awaiting"
       /\ (CallsOf(provider', i) = 0 /\ t.st = "returned")
            <=> FreshAt(cache[t.svc], t.key, t.now)

\* A step in which the provider answers a request.
C11_ResolveStep ==
  \A k \in DOMAIN provider :
    (provider[k].outcome = "pending" /\ provider'[k].outcome = "ok")
      => LET t == tasks[provider[k].by]
         IN /\ t.key \in DOMAIN cache'[t.svc].data
            /\ cache'[t.svc].data[t.key] = Payload(k)
            /\ cache'[t.svc].timestamps[t.key] = t.now
            /\ tasks'[provider[k].by].value = Payload(k)

\* C11: a cachedRequest call for a key whose entry has
\* now - storedAt >= cacheDuration (equality included) sends a request, and
\* when the request succeeds the entry's payload and storedAt are replaced
\* by the response and the call's clock reading; a call is answered from
\* the cache exactly when now - storedAt < cacheDuration.
C11_StaleEntryIsFetchedAgain == [][C11_CallStep /\ C11_ResolveStep]_vars

C11_Witness ==
  \E i \in CachedTasks(tasks) :
    /\ tasks[i].seen # Undefined
    /\ tasks[i].now - tasks[i].seen = CACHE_DURATION * MS_PER_SEC
    /\ tasks[i].st = "returned"
    /\ CallsOf(provider, i) = 1
    /\ cache[tasks[i].svc].data[tasks[i].key] = tasks[i].value
    /\ cache[tasks[i].svc].timestamps[tasks[i].key] = tasks[i].now
    /\ \E j \in 1..(i - 1) :
         tasks[j].key = tasks[i].key /\ tasks[j].value # tasks[i].value

\* Calls i and j are for the same key of the same cache.
SameKey(i, j) == tasks[i].svc = tasks[j].svc /\ tasks[i].key = tasks[j].key

\* Call i found its key absent or stale when it started.
MissedAtEntry(i) ==
  \/ tasks[i].seen = Undefined
  \/ tasks[i].now - tasks[i].seen >= CACHE_DURATION * MS_PER_SEC

\* A step in which a call starts while another call for the same key, which
\* found the key absent or stale, is still waiting for its response.
C12_CallStep ==
  Len(tasks') = Len(tasks) + 1 =>
    LET j == Len(tasks')
    IN (\E i \in CachedTasks(tasks) :
          /\ tasks[i].st = "awaiting"
          /\ tasks'[i].svc = tasks'[j].svc /\ tasks'[i].key = tasks'[j].key
          /\ ~FreshAt(cache[tasks'[j].svc], tasks'[j].key, tasks'[j].now))
         => /\ CallsOf(provider', j) = 1
            /\ Len(provider') = Len(provider) + 1
            /\ tasks'[j].st = "awaiting"

\* A step in which a response arrives: whatever the entry held, it now
\* holds this response and the clock reading of the call that asked for it.
C12_WriteStep ==
  \A k \in DOMAIN provider :
    (provider[k].outcome = "pending" /\ provider'[k].outcome = "ok")
      => LET t == tasks[provider[k].by]
         IN /\ cache'[t.svc].data[t.key].ver = k
            /\ cache'[t.svc].timestamps[t.key] = t.now
            /\ \A key \in DOMAIN cache[t.svc].data \ {t.key} :
                 /\ cache'[t.svc].data[key] = cache[t.svc].data[key]
                 /\ cache'[t.svc].timestamps[key] = cache[t.svc].timestamps[key]

C12_Calls ==
  \A i, j \in CachedTasks(tasks) :
    (i # j /\ SameKey(i, j) /\ MissedAtEntry(i) /\ MissedAtEntry(j))
      => /\ CallsOf(provider, i) = 1 /\ CallsOf(provider, j) = 1
         /\ RequestOf(i) # RequestOf(j)

\* C12: two cachedRequest calls for one absent or stale key that overlap
\* each send one request (two requests, no de-duplication); each response
\* is written with its own call's storedAt, and the entry is the payload and
\* storedAt of the write made last.
C12_ConcurrentMissesBothFetchLastWriteWins ==
  [][C12_CallStep /\ C12_WriteStep /\ C12_Calls']_vars

\* Two overlapping calls both wrote; the one that started first wrote last.
C12_Witness ==
  \E i, j \in CachedTasks(tasks) :
    /\ i < j /\ SameKey(i, j)
    /\ tasks[j].seen = tasks[i].seen
    /\ tasks[i].now < tasks[j].now
    /\ tasks[i].st = "returned" /\ tasks[j].st = "returned"
    /\ CallsOf(provider, i) = 1 /\ CallsOf(provider, j) = 1
    /\ cache[tasks[i].svc].data[tasks[i].key] = tasks[i].value
    /\ cache[tasks[i].svc].timestamps[tasks[i].key] = tasks[i].now

\* C13 as stated: no write replaces an entry that is still fresh
\* (now - storedAt < cacheDuration) at the moment of the write.
C13_NoWriteOverFreshEntry ==
  [][\A k \in DOMAIN provider :
       (provider[k].outcome = "pending" /\ provider'[k].outcome = "ok")
         => LET t == tasks[provider[k].by]
            IN ~FreshAt(cache[t.svc], t.key, now)]_vars

\* A step in which a response is written to the cache.
C13_WriteStep ==
  \A k \in DOMAIN provider :
    (provider[k].outcome = "pending" /\ provider'[k].outcome = "ok")
      => LET i == provider[k].by
             t == tasks[i]
         IN /\ MissedAtEntry(i)
            /\ FreshAt(cache[t.svc], t.key, now)
                 => /\ cache[t.svc].timestamps[t.key] # t.seen
                    /\ \E j \in CachedTasks(tasks) \ {i} :
                         /\ SameKey(i, j)
                         /\ tasks[j].st = "returned"
                         /\ cache[t.svc].data[t.key] = tasks[j].value

\* A step in which a call starts: it sends a request only when it finds
\* its key absent or stale.
C13_CallStep ==
  Len(tasks') = Len(tasks) + 1 =>
    LET j == Len(tasks')
    IN (Len(provider') > Len(provider))
         <=> ~FreshAt(cache[tasks'[j].svc], tasks'[j].key, tasks'[j].now)

\* C13, amended: a fetch is started, and its response later written, only
\* by a call that found the key absent or stale when it started; a write
\* replaces an entry that is fresh at the moment of the write only when
\* that entry was written by an overlapping call after the writer started.
C13_WriteOnlyAfterMissAtEntry == [][C13_CallStep /\ C13_WriteStep]_vars

\* Two overlapping calls have both written within the freshness window of
\* the first write.
C13_Witness ==
  \E i, j \in CachedTasks(tasks) :
    /\ i # j /\ SameKey(i, j)
    /\ tasks[j].seen = tasks[i].seen
    /\ tasks[i].st = "returned" /\ tasks[j].st = "returned"
    /\ CallsOf(provider, i) = 1 /\ CallsOf(provider, j) = 1
    /\ now - tasks[i].now < CACHE_DURATION * MS_PER_SEC
    /\ now - tasks[j].now < CACHE_DURATION * MS_PER_SEC

(***************************************************************************)
(* Claims about the cache under composite calls, under SpecComposite.      *)
(***************************************************************************)
\* Every key that has an entry keeps one through the step.
C14_KeysKept ==
  \A svc \in Services :
    /\ DOMAIN cache[svc].data \subseteq DOMAIN cache'[svc].data
    /\ DOMAIN cache[svc].timestamps \subseteq DOMAIN cache'[svc].timestamps
    /\ DOMAIN cache'[svc].data = DOMAIN cache'[svc].timestamps

\* A step in which a request fails, or a call is answered from the cache or
\* started, leaves every entry as it is.
C14_OnlyResponsesWrite ==
  (\A k \in DOMAIN provider :
     ~(provider[k].outcome = "pending" /\ provider'[k].outcome = "ok"
       /\ tasks[provider[k].by].op = "cachedRequest"))
    => cache' = cache

\* C14: a key that has an entry has one in every later state; a hit, a
\* miss, a failed fetch and the failure of a composite call delete nothing,
\* and a failed fetch on a stale key leaves the stale entry as it was.
C14_EntriesAreNeverDeleted == [][C14_KeysKept /\ C14_OnlyResponsesWrite]_vars

\* A composite call has failed on a facet whose key was stale, and the
\* stale entry is still there.
C14_Witness ==
  \E cid \in DOMAIN composites :
    /\ composites[cid].st = "threw"
    /\ \E i \in TasksOf(cid) :
         /\ tasks[i].op = "cachedRequest"
         /\ tasks[i].st = "threw"
         /\ tasks[i].seen # Undefined
         /\ tasks[i].now - tasks[i].seen >= CACHE_DURATION * MS_PER_SEC
         /\ tasks[i].key \in DOMAIN cache[tasks[i].svc].data
         /\ cache[tasks[i].svc].timestamps[tasks[i].key] = tasks[i].seen
    /\ \E j \in TasksOf(cid) :
         /\ tasks[j].st = "returned"
         /\ CallsOf(provider, j) = 1

(***************************************************************************)
(* Claims about the errors the services throw.                             *)
(***************************************************************************)
\* C15: the error a caller of cachedRequest or getComprehensiveProfile
\* receives is the error the failed provider call produced, unchanged, for
\* every kind of provider failure (rate limit and quota included).
C15_ErrorsPropagateUnchanged ==
  /\ \A i \in CachedTasks(tasks) :
       tasks[i].st = "threw"
         => tasks[i].value = provider[RequestOf(i)].error
  /\ \A cid \in DOMAIN composites :
       composites[cid].st = "threw"
         => \E k \in DOMAIN provider :
              /\ provider[k].by \in TasksOf(cid)
              /\ provider[k].outcome = "failed"
              /\ composites[cid].value = provider[k].error

(***************************************************************************)
(* Claims about the streak controller, under SpecStore.                    *)
(***************************************************************************)
\* The request that takes the step is an updateStreak at its update.
UpdateSaves(h) == handlers[h].pc = "update" /\ handlers'[h] = Finished

\* C16: updateStreak changes no field of a row whose source is github:
\* whatever the body carries, the request is refused or leaves the row as
\* it is.
C16_UpdateNeverChangesGitHubRows ==
  [][\A h \in DOMAIN handlers :
       UpdateSaves(h)
         => \A r \in streaks : r.source = "github" => r \in streaks']_vars

\* C17: the table holds at most one row for a (userId, date) pair.
C17_OneRowPerUserAndDate ==
  \A r1, r2 \in streaks :
    (r1.userId = r2.userId /\ r1.date = r2.date) => r1 = r2

\* A createStreak that found no row for its date was refused by the index:
\* a concurrent request had inserted the date's row in between.
C17_Witness ==
  /\ res.op = "createStreak"
  /\ res.status = 500
  /\ \E r \in streaks : r.userId = res.user /\ r.id[1] # 0
  /\ \A h \in DOMAIN handlers : handlers[h] = Finished

\* The handlers that take the step: the request that arrives or the one
\* that resumes.
Acting == {h \in DOMAIN handlers' :
             h \notin DOMAIN handlers \/ handlers'[h] # handlers[h]}

\* The user of the request that takes the step.
ActingUser(h) ==
  IF handlers'[h] = Finished THEN res'.user ELSE handlers'[h].user

OthersRows(rows, userId) == {r \in rows : r.userId # userId}

\* The request answered in the step named a row of another user.
NamesAnothersRow ==
  /\ Len(handlers') = Len(handlers) + 1
  /\ handlers'[Len(handlers')] = Finished
  /\ res'.op \in {"getStreakById", "updateStreak", "deleteStreak"}
  /\ \E r \in streaks : r.id = res'.id /\ r.userId # res'.user

C18_Step ==
  /\ \A h \in Acting :
       /\ OthersRows(streaks', ActingUser(h)) = OthersRows(streaks, ActingUser(h))
       /\ (handlers'[h] # Finished /\ handlers'[h].pc \in {"update", "destroy"})
            => \E r \in streaks :
                 r.id = handlers'[h].id /\ r.userId = handlers'[h].user
  /\ NamesAnothersRow => (res'.status = 404 /\ streaks' = streaks)

\* C18: getStreakById, updateStreak and deleteStreak by a user on a row of
\* another user answer 404 and change nothing, and no step of a user's
\* request creates, changes or deletes a row of another user.
C18_OnlyTheOwnerReachesARow == [][C18_Step]_vars

C18_Witness ==
  /\ res.op = "updateStreak"
  /\ res.status = 404
  /\ \E r \in streaks : r.id = res.id /\ r.userId # res.user

(***************************************************************************)
(* Further claims about Streak.calculateCurrentStreak, under SpecStreak.   *)
(***************************************************************************)
\* C19: for a user with records, lastActiveDate is the most recent date of
\* the records, whether currentStreak is 0 or not.
C19_LastActiveDateIsMostRecent ==
  Called =>
    /\ calc.result.lastActiveDate = DateObj(MostRecent * MS_PER_DAY)
    /\ DayOfDate(calc.result.lastActiveDate) = MostRecent

C19_Witness ==
  /\ Called
  /\ calc.result.currentStreak = 0
  /\ Cardinality(calc.dates) >= 2
  /\ MostRecent < Yesterday

\* A step in which calculateCurrentStreak is called.
C20_CallStep ==
  calc' # calc =>
    /\ streaks' = streaks
    /\ (calc'.again /\ calc'.dates = calc.dates)
         => calc'.result = calc.result

\* C20: calculateCurrentStreak creates, changes and deletes no record, and
\* two calls for the same records on the same day return the same result.
C20_ReadOnlyAndDeterministic == [][C20_CallStep]_vars

C20_Witness ==
  /\ calc.called
  /\ calc.again
  /\ calc.result.currentStreak >= 1
  /\ calc.result.longestStreak > calc.result.currentStreak

(***************************************************************************)
(* Claims about termination, under SpecCompositeFair.                      *)
(***************************************************************************)
\* No service call and no composite call is waiting.
AllSettled ==
  /\ \A i \in DOMAIN tasks : tasks[i].st # "awaiting"
  /\ \A cid \in DOMAIN composites : composites[cid].st # "awaiting"

\* A composite call settles only on its facets: it returns when every
\* facet has returned and throws when a facet has thrown, so with a facet
\* that never completes and no facet that throws it keeps waiting.
C21_WaitsForItsFacets ==
  \A cid \in DOMAIN composites :
    LET facets == FacetsOf(composites[cid].svc)
    IN /\ composites[cid].st = "returned"
            => \A f \in facets : FacetTask(tasks, cid, f).st = "returned"
       /\ composites[cid].st = "threw"
            => \E f \in facets : FacetTask(tasks, cid, f).st = "threw"
       /\ ((\E f \in facets : FacetTask(tasks, cid, f).st = "awaiting")
            /\ (\A f \in facets : FacetTask(tasks, cid, f).st # "threw"))
            => composites[cid].st = "awaiting"

\* C21: when every provider request is answered in the end, every
\* cachedRequest call and every getComprehensiveProfile call returns or
\* throws in the end; a composite call whose facet never completes, no
\* other facet throwing, never completes.
C21_CallsSettleWhenProvidersAnswer ==
  /\ []C21_WaitsForItsFacets
  /\ (composites # <<>>) ~> AllSettled

C21_Witness ==
  \E cid \in DOMAIN composites :
    /\ composites[cid].st = "returned"
    /\ \A i \in TasksOf(cid) : CallsOf(provider, i) = 1
    /\ AllSettled

(***************************************************************************)
(* Claims about the stored timestamp, under SpecCache.                     *)
(***************************************************************************)
\* C25: each write to an entry stores a storedAt greater than or equal to
\* the one it replaces.
C25_TimestampNeverDecreases ==
  [][\A svc \in Services : \A key \in DOMAIN cache[svc].timestamps :
       cache'[svc].timestamps[key] >= cache[svc].timestamps[key]]_vars

\* C26: an entry is fresh at the moment a successful fetch writes it, and
\* so is a hit for every call made less than the cache duration later.
C26_FreshWhenWritten ==
  [][\A k \in DOMAIN provider :
       (provider[k].outcome = "pending" /\ provider'[k].outcome = "ok")
         => LET t == tasks[provider[k].by]
            IN /\ cache'[t.svc].timestamps[t.key] = now'
               /\ IsHit(cache'[t.svc], t.key, now')]_vars

(***************************************************************************)
(* Claim about the GitHub cache key, under SpecCache.                      *)
(***************************************************************************)
\* C27: the GitHub key is injective in (endpoint, token): calls with one
\* key have one endpoint, and a call is returned only a payload that was
\* fetched for its own endpoint.
C27_KeyIsInjectiveAcrossEndpoints ==
  /\ \A i, j \in CachedTasks(tasks) :
       (/\ tasks[i].svc = "github" /\ tasks[j].svc = "github"
        /\ tasks[i].key = tasks[j].key)
         => tasks[i].endpoint = tasks[j].endpoint
  /\ \A i \in CachedTasks(tasks) :
       (tasks[i].svc = "github" /\ tasks[i].st = "returned")
         => tasks[i].value.url = tasks[i].endpoint

(***************************************************************************)
(* Claim about the cache after a composite call has thrown, under          *)
(* SpecLater.                                                              *)
(***************************************************************************)
\* The cachedRequest facets of composite call cid that fetched and returned.
Succeeded(cid) ==
  {i \in TasksOf(cid) : /\ tasks[i].op = "cachedRequest"
                        /\ tasks[i].st = "returned"
                        /\ CallsOf(provider, i) = 1}

\* The step in which a composite call throws deletes nothing, and the
\* entries of its facets that succeeded stay in the cache afterwards.
C28_EntriesKept ==
  /\ \A cid \in DOMAIN composites :
       (composites[cid].st = "awaiting" /\ composites'[cid].st = "threw")
         => cache' = cache
  /\ \A cid \in DOMAIN composites' :
       composites'[cid].st = "threw" =>
         \A i \in TasksOf(cid) :
           (/\ tasks'[i].op = "cachedRequest" /\ tasks'[i].st = "returned"
            /\ CallsOf(provider', i) = 1)
             => /\ tasks'[i].key \in DOMAIN cache'[tasks'[i].svc].data
                /\ tasks'[i].key \in DOMAIN cache'[tasks'[i].svc].timestamps

\* A call made after the composite call has thrown, for the key of a facet
\* that succeeded, within the freshness window of the entry, is served from
\* the cache.
C28_LaterCallStep ==
  (Len(tasks') = Len(tasks) + 1 /\ composites' = composites) =>
    LET j == Len(tasks')
    IN \A cid \in DOMAIN composites : \A i \in Succeeded(cid) :
         (/\ tasks'[j].svc = tasks[i].svc /\ tasks'[j].key = tasks[i].key
          /\ FreshAt(cache[tasks[i].svc], tasks[i].key, now))
           => /\ tasks'[j].st = "returned"
              /\ tasks'[j].value = cache[tasks[i].svc].data[tasks[i].key]
              /\ tasks'[j].value.url = tasks'[j].endpoint
              /\ provider' = provider

\* The response of a facet that was in flight when its composite call threw
\* is written to the cache.
C28_InFlightStep ==
  \A k \in DOMAIN provider :
    (/\ provider[k].outcome = "pending" /\ provider'[k].outcome = "ok"
     /\ tasks[provider[k].by].op = "cachedRequest"
     /\ tasks[provider[k].by].owner \in DOMAIN composites
     /\ composites[tasks[provider[k].by].owner].st = "threw")
      => LET t == tasks[provider[k].by]
         IN /\ cache'[t.svc].data[t.key].ver = k
            /\ cache'[t.svc].timestamps[t.key] = t.now
            /\ composites' = composites

\* C28: when getComprehensiveProfile throws because a facet failed, the
\* entries written by the facets that succeeded are kept and serve a later
\* call within the freshness window without a provider request, and a facet
\* still in flight writes its entry when its response arrives.
C28_RejectionKeepsAndAllowsWrites ==
  [][C28_EntriesKept /\ C28_LaterCallStep /\ C28_InFlightStep]_vars

\* After the composite call threw, a later call found the key of a facet
\* absent, and that facet has since written it; another later call would
\* have been a hit on a facet's entry.
C28_Witness ==
  \E cid \in DOMAIN composites :
    /\ composites[cid].st = "threw"
    /\ \E i \in Succeeded(cid) : \E j \in CachedTasks(tasks) :
         /\ tasks[j].owner = 0 /\ SameKey(i, j)
         /\ tasks[j].seen = Undefined
         /\ tasks[j].st = "awaiting"
         /\ cache[tasks[i].svc].data[tasks[i].key] = tasks[i].value
    /\ \E i \in Succeeded(cid) :
         /\ FreshAt(cache[tasks[i].svc], tasks[i].key, now)
         /\ tasks[i].facet # "profile"

(***************************************************************************)
(* Claim about the retrievals that are not cached, under SpecComposite.    *)
(***************************************************************************)
\* The GraphQL retrievals of composite call cid.
GraphQLTasks(cid) == {i \in TasksOf(cid) : tasks[i].op = "graphql"}

\* The calls of composite call cid that were answered without a request.
ServedFromCache(cid) ==
  {i \in TasksOf(cid) : tasks[i].st = "returned" /\ CallsOf(provider, i) = 0}

\* C29: every GitHub getComprehensiveProfile call sends the pinned-items
\* request and the contribution-calendar request, whatever the cache holds;
\* only the profile and repositories calls and the pinned-items fallback
\* are answered from the cache, and no entry holds a GraphQL response.
C29_GraphQLBypassesTheCache ==
  \A cid \in DOMAIN composites :
    composites[cid].svc = "github" =>
      /\ \A f \in {"pinnedRepositories", "contributions"} :
           \E i \in GraphQLTasks(cid) :
             /\ tasks[i].facet = f
             /\ CallsOf(provider, i) = 1
             /\ provider[RequestOf(i)].url
                  = "https://api.github.com/graphql " \o f \o " "
                    \o composites[cid].user
             /\ \A j \in GraphQLTasks(cid) : tasks[j].facet = f => j = i
      /\ \A i \in ServedFromCache(cid) :
           /\ tasks[i].op = "cachedRequest"
           /\ tasks[i].facet \in {"profile", "repositories", "pinnedRepositories"}
           /\ tasks[i].endpoint
                \in {UserEndpoint(composites[cid].user),
                     ReposEndpoint(composites[cid].user, 10),
                     ReposEndpoint(composites[cid].user, 6)}
      /\ \A key \in DOMAIN cache["github"].data :
           cache["github"].data[key].url
             \in {UserEndpoint(composites[cid].user),
                  ReposEndpoint(composites[cid].user, 10),
                  ReposEndpoint(composites[cid].user, 6)}

\* A call made one second after an identical one: the profile, the
\* repositories and the fallback are answered from the cache, and both
\* GraphQL requests were sent all the same.
C29_Witness ==
  \E cid \in DOMAIN composites :
    /\ composites[cid].svc = "github"
    /\ composites[cid].st = "returned"
    /\ \A f \in {"profile", "repositories", "pinnedRepositories"} :
         FacetTask(tasks, cid, f) \in {tasks[i] : i \in ServedFromCache(cid)}
    /\ \A i \in GraphQLTasks(cid) : CallsOf(provider, i) = 1
    /\ Cardinality(GraphQLTasks(cid)) = 2

(***************************************************************************)
(* Claims about the sync and about createStreak, under SpecStore.          *)
(***************************************************************************)
\* Request 1 is a sync, and no other request has arrived before or during
\* this step.
SyncRunsAlone ==
  /\ Len(handlers) = 1 /\ Len(handlers') = 1
  /\ handlers[1] # Finished
  /\ handlers[1].op = "syncGitHubContributions"

\* The rows of the user for the day, as the table stores the day.
RowsOfDay(rows, userId, day) ==
  {r \in rows : r.userId = userId /\ r.date = ColumnDate(day, tz)}

\* Every contribution day of the list has exactly one row of the user, a
\* GitHub row with the day's count.
DaysSynced(rows, userId, days) ==
  \A i \in DOMAIN days :
    /\ days[i][2] > 0
    /\ \E r \in rows :
         /\ RowsOfDay(rows, userId, days[i][1]) = {r}
         /\ r.source = "github"
         /\ r.commitCount = days[i][2]

\* The step that handles one contribution day: the day's row becomes a
\* GitHub row with the day's count, an existing row keeping its id,
\* description and language, and no other row changes.
C22_WriteStep ==
  (SyncRunsAlone /\ handlers[1].pc = "write") =>
    LET t == handlers[1]
        day == t.days[1][1]
        count == t.days[1][2]
        before == RowsOfDay(streaks, t.user, day)
        after == RowsOfDay(streaks', t.user, day)
        created == IF handlers'[1] = Finished THEN res'.createdCount
                   ELSE handlers'[1].createdCount
        updated == IF handlers'[1] = Finished THEN res'.updatedCount
                   ELSE handlers'[1].updatedCount
    IN /\ count > 0
       /\ streaks' \ after = streaks \ before
       /\ \E r \in after :
            /\ after = {r}
            /\ r.source = "github" /\ r.commitCount = count
            /\ \A old \in before :
                 /\ r.id = old.id
                 /\ r.description = old.description
                 /\ r.language = old.language
       /\ created = t.createdCount + (IF before = {} THEN 1 ELSE 0)
       /\ updated = t.updatedCount + (IF before = {} THEN 0 ELSE 1)
       /\ DaysSynced(streaks', t.user,
                     SubSeq(t.calendar, 1, Len(t.calendar) - Len(t.days) + 1))

\* The other steps of the sync write nothing, and the sync answers 200
\* with createdCount + updatedCount the number of days with a positive count.
C22_OtherSteps ==
  /\ (SyncRunsAlone /\ handlers[1].pc = "find") => streaks' = streaks
  /\ (SyncRunsAlone /\ handlers'[1] = Finished)
       => /\ res'.status = 200
          /\ res'.createdCount + res'.updatedCount = Len(handlers[1].calendar)
          /\ DaysSynced(streaks', res'.user, handlers[1].calendar)
  /\ (/\ handlers = <<>> /\ Len(handlers') = 1
      /\ res'.op = "syncGitHubContributions" /\ res'.status = 200)
       => /\ streaks' = streaks
          /\ res'.createdCount = 0 /\ res'.updatedCount = 0

C23_ArrivalStep ==
  (Len(handlers') = Len(handlers) + 1) =>
    LET n == Len(handlers')
    IN /\ (handlers'[n] # Finished /\ handlers'[n].op = "createStreak")
            => /\ handlers'[n].body.date # Undefined
               /\ RowsOfDay(streaks, handlers'[n].user,
                            handlers'[n].body.date) = {}
               /\ streaks' = streaks /\ res' = res
       /\ (handlers'[n] = Finished /\ res'.op = "createStreak")
            => /\ res'.n = n /\ res'.status = 400
               /\ streaks' = streaks

\* The step of the insert: answered 201, it has added exactly one row, a
\* manual row of the user for the date, with commitCount 0 when the body
\* gave none; answered otherwise, it has written nothing.
C23_InsertStep ==
  \A h \in DOMAIN handlers :
    (handlers[h] # Finished /\ handlers[h].pc = "create"
       /\ handlers'[h] = Finished) =>
      LET t == handlers[h]
      IN IF res'.status = 201
         THEN \E row \in streaks' :
                /\ row \notin streaks
                /\ streaks' = streaks \cup {row}
                /\ RowsOfDay(streaks', t.user, t.body.date) = {row}
                /\ row.id = res'.id
                /\ row.source = "manual"
                /\ row.commitCount = IF t.body.commitCount = Undefined THEN 0
                                     ELSE t.body.commitCount
         ELSE streaks' = streaks /\ res'.status = 500

GitHubRowNamed(rows, userId, id) ==
  {r \in rows : r.id = id /\ r.userId = userId /\ r.source = "github"}

\* Every GitHub row is still there after the step, with its date and source.
C24_RowsStay ==
  \A r \in streaks :
    r.source = "github" =>
      \E r2 \in streaks' :
        /\ r2.id = r.id /\ r2.userId = r.userId
        /\ r2.date = r.date /\ r2.source = "github"

\* deleteStreak on a GitHub row is answered 400 on arrival and removes
\* nothing; updateStreak on a GitHub row goes on to its save only without a
\* date in the body, and every updateStreak answered on arrival writes
\* nothing.
C24_ArrivalStep ==
  (Len(handlers') = Len(handlers) + 1) =>
    LET n == Len(handlers')
        t == handlers'[n]
    IN /\ (res'.op = "deleteStreak" /\ res'.n = n
           /\ GitHubRowNamed(streaks, res'.user, res'.id) # {})
            => /\ t = Finished /\ res'.status = 400 /\ streaks' = streaks
       /\ (t # Finished /\ t.op = "deleteStreak")
            => GitHubRowNamed(streaks, t.user, t.id) = {}
       /\ (t # Finished /\ t.op = "updateStreak" /\ t.body.date # Undefined)
            => GitHubRowNamed(streaks, t.user, t.id) = {}
       /\ (res'.op = "updateStreak" /\ res'.n = n
           /\ GitHubRowNamed(streaks, res'.user, res'.id) # {})
            => /\ res'.status = 400 /\ streaks' = streaks

\* C24: through createStreak, updateStreak and deleteStreak calls of its
\* owner a GitHub row stays, with its date and its source: deleteStreak on
\* it is answered 400 and removes nothing, and updateStreak with a date is
\* answered 400 and changes nothing.
C24_GitHubRowsSurviveEdits ==
  [][C24_RowsStay /\ C24_ArrivalStep]_vars

\* After another request, a deleteStreak of the owner on a GitHub row was
\* answered 400 and the row is there.
C24_Witness ==
  /\ res.op = "deleteStreak" /\ res.status = 400 /\ res.n = MaxRequests
  /\ GitHubRowNamed(streaks, res.user, res.id) # {}

(***************************************************************************)
(* Claim about a repeated sync, under SpecStore.                           *)
(***************************************************************************)
\* Request 2 is a sync of the user and contribution days of request 1, a
\* sync that has answered 200, and no other request has arrived.  The second
\* run has created nothing so far and, when it is about to write, the row it
\* found is the row the table holds (the first run wrote before, not in
\* between).
SecondRun ==
  /\ Len(handlers) = 2 /\ Len(handlers') = 2
  /\ handlers[1] = Finished /\ handlers[2] # Finished
  /\ handlers[2].op = "syncGitHubContributions"
  /\ res.n = 1 /\ res.op = "syncGitHubContributions" /\ res.status = 200
  /\ res.user = handlers[2].user
  /\ res.days = handlers[2].calendar
  /\ handlers[2].createdCount = 0
  /\ handlers[2].pc = "write"
       => handlers[2].existingStreak
            = RowsOfDay(streaks, handlers[2].user, handlers[2].days[1][1])

\* C30: a second sync with the same contribution data leaves the user's
\* rows exactly as the first run left them and reports createdCount 0.
C30_SecondSyncChangesNothing ==
  [][SecondRun =>
       /\ streaks' = streaks
       /\ IF handlers'[2] = Finished
          THEN /\ res'.n = 2 /\ res'.status = 200
               /\ res'.createdCount = 0
               /\ res'.updatedCount = Len(handlers[2].calendar)
          ELSE handlers'[2].createdCount = 0]_vars

\* The second of two syncs of every day has answered 200 with createdCount
\* 0; the rows are those the first sync created.
C30_Witness ==
  /\ Len(handlers) = 2
  /\ res.n = 2 /\ res.op = "syncGitHubContributions" /\ res.status = 200
  /\ res.createdCount = 0 /\ res.updatedCount = MaxBodyDay
  /\ Len(res.days) = MaxBodyDay
  /\ \A i \in DOMAIN res.days :
       \E r \in streaks :
         /\ r = SyncedRow(1, res.user, res.days[i][1], res.days[i][2], tz)

====
